---------------------------- MODULE Spec2Model ----------------------------
(***************************************************************************)
(* Model of the potv3 voice bot: the per-guild queue store                 *)
(* (src/src/pot.rs, SystemPlaylist) and the command / track-end handlers   *)
(* that drive playback (src/src/interaction/commands.rs).                  *)
(*                                                                         *)
(* Two specifications share the variables:                                 *)
(*   StoreSpec  the SystemPlaylist methods called one after another        *)
(*   Spec       the handler tasks (play, skip, leave, track end) running   *)
(*              concurrently, one step per await point                     *)
(***************************************************************************)
EXTENDS Integers, Sequences, FiniteSets, TLC

\* ------------------------------------------------------------------ bounds
\* longest guild queue the model lets an enqueue build
MaxQueue == 3
\* most items one resolution returns
MaxResolved == 2
\* most store operations in one StoreSpec run
MaxOps == 3

Guilds == {"g1", "g2"}
Tasks == {"t1", "t2"}
\* Call objects per guild: the manager's current one and one per task that may
\* still hold an Arc to a removed one; an id nobody refers to is used again
Calls == 1..(Cardinality(Tasks) + 1)
NoCall == 0
\* a PlaylistItem, identified by its cache key (extractor, id)
Items == {"A", "B"}

NoTask == "none"
NoItem == "none"
NoGuild == "none"

InputKinds == {"Url", "SpotifyUrl", "Search"}

SeqsUpTo(n) == UNION {[1..k -> Items] : k \in 0..n}

VARIABLES
    guilds_playlists,   \* SystemPlaylist.guilds_playlists: partial map guild -> queue
    guilds_playing,     \* SystemPlaylist.guilds_playing: partial map guild -> bool
    playlist_lock,      \* holder of the RwLock<SystemPlaylist> write guard
    current,            \* guild -> the Call the Songbird manager holds for it, or NoCall
    call_lock,          \* (guild, call) -> holder of that Call's Mutex
    track,              \* guild -> item its current call is playing, or NoItem
    fs,                 \* item -> what lies at data/cache/media/{extractor}/{id}
    task,               \* task -> the handler it runs and its locals
    last,               \* StoreSpec: the last store call and what it returned
    added,              \* StoreSpec: guild -> items enqueued since the last clear
    consumed,           \* StoreSpec: guild -> items consume returned since then
    nops                \* StoreSpec: store calls made so far

storeVars == <<guilds_playlists, guilds_playing>>
lockVars == <<playlist_lock, call_lock>>
voiceVars == <<current, track>>
ghostVars == <<last, added, consumed, nops>>
vars == <<guilds_playlists, guilds_playing, playlist_lock, current,
          call_lock, track, fs, task, last, added, consumed, nops>>

\* ------------------------------------------------- SystemPlaylist (pot.rs)

\* HashMap insert-or-overwrite
MapPut(m, k, v) == [x \in (DOMAIN m) \cup {k} |-> IF x = k THEN v ELSE m[x]]

\* mutant of set_status: the flag of every guild that has one is written
set_status_all(playing, g, b) == [h \in DOMAIN playing \cup {g} |-> b]

\* mutant of set_status: an existing entry is flipped instead of assigned
set_status_toggle(playing, g, b) ==
    MapPut(playing, g, IF g \in DOMAIN playing THEN ~playing[g] ELSE b)

set_status(playing, g, b) == MapPut(playing, g, b)

\* mutant of is_playing: a guild without an entry counts as playing
is_playing_unknown_true(playing, g) == IF g \in DOMAIN playing THEN playing[g] ELSE TRUE

is_playing(playing, g) == IF g \in DOMAIN playing THEN playing[g] ELSE FALSE

\* mutant of consume: entry().or_default(), a missing queue is created
consume_creates(lists, g) ==
    IF g \in DOMAIN lists /\ lists[g] # <<>>
    THEN [item |-> Head(lists[g]), lists |-> MapPut(lists, g, Tail(lists[g]))]
    ELSE [item |-> NoItem, lists |-> MapPut(lists, g, <<>>)]

\* mutant of consume: Vec::pop, the last item instead of the first
consume_pop(lists, g) ==
    IF g \in DOMAIN lists /\ lists[g] # <<>>
    THEN [item |-> lists[g][Len(lists[g])],
          lists |-> [x \in DOMAIN lists |->
                       IF x = g THEN SubSeq(lists[g], 1, Len(lists[g]) - 1)
                       ELSE lists[x]]]
    ELSE [item |-> NoItem, lists |-> lists]

\* mutant of consume: a queue that runs empty is removed from the map
consume_drops_empty(lists, g) ==
    IF g \in DOMAIN lists
    THEN IF lists[g] = <<>>
         THEN [item |-> NoItem, lists |-> lists]
         ELSE [item |-> Head(lists[g]),
               lists |-> IF Tail(lists[g]) = <<>>
                         THEN [h \in DOMAIN lists \ {g} |-> lists[h]]
                         ELSE MapPut(lists, g, Tail(lists[g]))]
    ELSE [item |-> NoItem, lists |-> lists]

\* consume: [item |-> head or NoItem, lists |-> the map afterwards]
consume(lists, g) ==
    IF g \in DOMAIN lists
    THEN IF lists[g] = <<>>
         THEN [item |-> NoItem, lists |-> lists]
         ELSE [item |-> Head(lists[g]), lists |-> MapPut(lists, g, Tail(lists[g]))]
    ELSE [item |-> NoItem, lists |-> lists]

\* mutant of is_url: every input counts as a URL
is_url_always(kind) == TRUE

\* PotPlayInputType::is_url
is_url(kind) == kind = "Url"

\* mutant of add: the new items are put in front of the queue
add_front(lists, g, kind, res) ==
    IF ~res.ok \/ Len(res.items) = 0
    THEN [ok |-> FALSE, count |-> 0, slice |-> <<>>, lists |-> lists]
    ELSE LET base == IF g \in DOMAIN lists THEN lists[g] ELSE <<>>
         IN IF is_url(kind)
            THEN [ok |-> TRUE, count |-> Len(res.items), slice |-> res.items,
                  lists |-> MapPut(lists, g, res.items \o base)]
            ELSE [ok |-> TRUE, count |-> 1, slice |-> <<res.items[1]>>,
                  lists |-> MapPut(lists, g, <<res.items[1]>> \o base)]

\* mutant of add: the guild's queue is created before the emptiness test
add_creates_queue(lists, g, kind, res) ==
    LET base == IF g \in DOMAIN lists THEN lists[g] ELSE <<>>
    IN IF ~res.ok
       THEN [ok |-> FALSE, count |-> 0, slice |-> <<>>, lists |-> lists]
       ELSE IF Len(res.items) = 0
       THEN [ok |-> FALSE, count |-> 0, slice |-> <<>>, lists |-> MapPut(lists, g, base)]
       ELSE IF is_url(kind)
       THEN [ok |-> TRUE, count |-> Len(res.items), slice |-> res.items,
             lists |-> MapPut(lists, g, base \o res.items)]
       ELSE [ok |-> TRUE, count |-> 1, slice |-> <<res.items[1]>>,
             lists |-> MapPut(lists, g, Append(base, res.items[1]))]

\* add, after resolution returned `res` (res.ok: the resolver returned a list):
\* [ok, count, slice, lists]
add(lists, g, kind, res) ==
    IF ~res.ok \/ Len(res.items) = 0
    THEN [ok |-> FALSE, count |-> 0, slice |-> <<>>, lists |-> lists]
    ELSE LET base == IF g \in DOMAIN lists THEN lists[g] ELSE <<>>
         IN IF is_url(kind)
            THEN [ok |-> TRUE, count |-> Len(res.items), slice |-> res.items,
                  lists |-> MapPut(lists, g, base \o res.items)]
            ELSE [ok |-> TRUE, count |-> 1, slice |-> <<res.items[1]>>,
                  lists |-> MapPut(lists, g, Append(base, res.items[1]))]

\* mutant of clear: every guild's queue is emptied
clear_all(lists, g) ==
    [ret |-> g \in DOMAIN lists, lists |-> [x \in DOMAIN lists |-> <<>>]]

\* clear: [ret, lists]
clear(lists, g) ==
    IF g \in DOMAIN lists
    THEN [ret |-> TRUE, lists |-> MapPut(lists, g, <<>>)]
    ELSE [ret |-> FALSE, lists |-> lists]

Queue(g) == IF g \in DOMAIN guilds_playlists THEN guilds_playlists[g] ELSE <<>>

\* what a resolution can return: an error, or a list of items
Resolutions == {[ok |-> FALSE, items |-> <<>>]} \cup
               {[ok |-> TRUE, items |-> s] : s \in SeqsUpTo(MaxResolved)}

\* -------------------------------------------------------------------- Init
IdleTask == [op |-> "none", pc |-> "idle", guild |-> NoGuild, handle |-> NoCall,
             item |-> NoItem, res |-> "none", q0 |-> <<>>, attempts |-> 0,
             cannot |-> 0, finished |-> 0, nowplaying |-> 0, flag0 |-> FALSE,
             track0 |-> NoItem, user |-> "none", deadplay |-> FALSE,
             notices |-> <<>>]

NoLast == [op |-> "none", guild |-> NoGuild, item |-> NoItem, ok |-> FALSE,
           count |-> 0, slice |-> <<>>, before |-> <<>>, kind |-> "none",
           resolved |-> <<>>, store0 |-> <<>>]

StoreEmpty ==
    /\ guilds_playlists = <<>>
    /\ guilds_playing = <<>>
    /\ playlist_lock = NoTask
    /\ current = [g \in Guilds |-> NoCall]
    /\ call_lock = [g \in Guilds |-> [c \in Calls |-> NoTask]]
    /\ track = [g \in Guilds |-> NoItem]
    /\ task = [t \in Tasks |-> IdleTask]
    /\ last = NoLast
    /\ added = [g \in Guilds |-> <<>>]
    /\ consumed = [g \in Guilds |-> <<>>]
    /\ nops = 0

\* the process after main() built the state: nothing queued, no call, no task,
\* an empty media cache
Init ==
    /\ StoreEmpty
    /\ fs = [i \in Items |-> "none"]

\* --------------------------------------------------------------- StoreSpec
\* The SystemPlaylist methods called one at a time, as a caller holding the
\* write guard calls them.

StoreAdd(g, kind, res) ==
    /\ nops < MaxOps
    /\ Len(Queue(g)) + Len(res.items) <= MaxQueue
    /\ LET r == add(guilds_playlists, g, kind, res)
       IN /\ guilds_playlists' = r.lists
          /\ last' = [NoLast EXCEPT !.op = "add", !.guild = g, !.ok = r.ok,
                                    !.count = r.count, !.slice = r.slice,
                                    !.before = Queue(g), !.kind = kind,
                                    !.resolved = res.items, !.store0 = storeVars]
          /\ added' = [added EXCEPT ![g] = @ \o r.slice]
    /\ nops' = nops + 1
    /\ UNCHANGED <<guilds_playing, consumed, lockVars, voiceVars, fs, task>>

StoreConsume(g) ==
    /\ nops < MaxOps
    /\ LET r == consume(guilds_playlists, g)
       IN /\ guilds_playlists' = r.lists
          /\ last' = [NoLast EXCEPT !.op = "consume", !.guild = g,
                                    !.item = r.item, !.ok = (r.item # NoItem),
                                    !.before = Queue(g), !.store0 = storeVars]
          /\ consumed' = [consumed EXCEPT ![g] =
                             IF r.item # NoItem THEN Append(@, r.item) ELSE @]
    /\ nops' = nops + 1
    /\ UNCHANGED <<guilds_playing, added, lockVars, voiceVars, fs, task>>

StoreClear(g) ==
    /\ nops < MaxOps
    /\ LET r == clear(guilds_playlists, g)
       IN /\ guilds_playlists' = r.lists
          /\ last' = [NoLast EXCEPT !.op = "clear", !.guild = g, !.ok = r.ret,
                                    !.before = Queue(g), !.store0 = storeVars]
    /\ added' = [added EXCEPT ![g] = <<>>]
    /\ consumed' = [consumed EXCEPT ![g] = <<>>]
    /\ nops' = nops + 1
    /\ UNCHANGED <<guilds_playing, lockVars, voiceVars, fs, task>>

StoreSetStatus(g, b) ==
    /\ nops < MaxOps
    /\ guilds_playing' = set_status(guilds_playing, g, b)
    /\ last' = [NoLast EXCEPT !.op = "set_status", !.guild = g, !.ok = b,
                              !.before = Queue(g), !.store0 = storeVars]
    /\ nops' = nops + 1
    /\ UNCHANGED <<guilds_playlists, added, consumed, lockVars, voiceVars, fs, task>>

StoreNext ==
    \/ \E g \in Guilds, kind \in InputKinds, res \in Resolutions : StoreAdd(g, kind, res)
    \/ \E g \in Guilds : StoreConsume(g)
    \/ \E g \in Guilds : StoreClear(g)
    \/ \E g \in Guilds, b \in BOOLEAN : StoreSetStatus(g, b)

StoreSpec == Init /\ [][StoreNext]_vars


\* ------------------------------------------------------------------- Spec
\* The handlers of commands.rs as concurrent tasks.  task[t].pc is the await
\* point the task is suspended at; a step runs the code up to the next one.

Op(t) == task[t].op
Pc(t) == task[t].pc
G(t) == task[t].guild
H(t) == task[t].handle

\* where the author of a command is: in no voice channel, in the bot's, in another
UserStates == {"none", "same", "other"}

\* songbird.get(guild).is_some()
Registered(g) == current[g] # NoCall

\* the handle is the Call the manager holds for the guild, still connected
Live(g, c) == c # NoCall /\ current[g] = c

\* the Call object a join creates: an id neither the manager nor a task refers to
FreshCall(g) ==
    LET free == {c \in Calls : /\ c # current[g]
                                /\ \A t \in Tasks : ~(G(t) = g /\ H(t) = c)}
    IN CHOOSE c \in free : \A d \in free : c <= d

Start(op, g, pc) == [IdleTask EXCEPT !.op = op, !.guild = g, !.pc = pc]

\* the guards of a task go out of scope
ReleasedCalls(t) ==
    [g \in Guilds |-> [c \in Calls |->
        IF call_lock[g][c] = t THEN NoTask ELSE call_lock[g][c]]]

\* Call::play_only_input on the call behind handle c; songbird plays nothing
\* on a call that has left its channel
play_only_input(g, c, item) ==
    IF Live(g, c) THEN [track EXCEPT ![g] = item] ELSE track

\* mutant of stop: the call keeps playing
stop_nothing(g, c) == track

\* Call::stop
stop(g, c) == IF Live(g, c) THEN [track EXCEPT ![g] = NoItem] ELSE track

\* mutant of check_file: whatever exists at the path counts
check_file_exists(f, item) == f[item] # "none"

\* ---- SystemPlaylist::get_media (pot.rs): what one call can return and leave
\* on disk.  A cached file is returned without a fetch; otherwise ytdlp_download
\* runs and the path is checked again.  A directory is never a file.
check_file(f, item) == f[item] = "file"

GetMediaOutcomes(f, item) ==
    IF check_file(f, item)
    THEN {[ok |-> TRUE, fs |-> f, fetches |-> 0]}
    ELSE {[ok |-> check_file(f2, item), fs |-> f2, fetches |-> 1] :
            f2 \in {f} \cup (IF f[item] = "none"
                             THEN {[f EXCEPT ![item] = "file"]} ELSE {})}

\* ---- Songbird::remove(guild): leave() locks the guild's current Call, then
\* the Call is dropped from the manager; no Call: JoinError::NoCall, ignored.
RemoveEnabled(g) == Registered(g) => call_lock[g][current[g]] = NoTask

\* ---- PlayCommand::run
\* the author is in no voice channel: only the response
PlayNotInVoice(t, g) ==
    /\ Pc(t) = "idle"
    /\ task' = [task EXCEPT ![t] =
                  [Start("play", g, "ret") EXCEPT !.res = "Not in a voice channel"]]
    /\ UNCHANGED <<storeVars, lockVars, voiceVars, fs, ghostVars>>

\* JoinCommand::run(direct = true): the existing call, or a join that succeeds
PlayJoin(t, g) ==
    /\ Pc(t) = "idle"
    /\ IF Registered(g)
       THEN /\ task' = [task EXCEPT ![t] =
                  [Start("play", g, "play_lock_playlist") EXCEPT !.handle = current[g]]]
            /\ UNCHANGED current
       ELSE /\ current' = [current EXCEPT ![g] = FreshCall(g)]
            /\ task' = [task EXCEPT ![t] =
                  [Start("play", g, "play_lock_playlist") EXCEPT !.handle = FreshCall(g)]]
    /\ UNCHANGED <<storeVars, lockVars, track, fs, ghostVars>>

\* mutant of PlayJoinFailed: the write lock is taken and the guild's queue made
\* before the join is tried
PlayJoinFailed_prepares(t, g) ==
    /\ Pc(t) = "idle"
    /\ ~Registered(g)
    /\ playlist_lock = NoTask
    /\ playlist_lock' = t
    /\ guilds_playlists' = MapPut(guilds_playlists, g, Queue(g))
    /\ task' = [task EXCEPT ![t] =
                  [Start("play", g, "ret") EXCEPT !.res = "No call obtained"]]
    /\ UNCHANGED <<guilds_playing, call_lock, voiceVars, fs, ghostVars>>

\* songbird.join returned Err: "No call obtained"
PlayJoinFailed(t, g) ==
    /\ Pc(t) = "idle"
    /\ ~Registered(g)
    /\ task' = [task EXCEPT ![t] =
                  [Start("play", g, "ret") EXCEPT !.res = "No call obtained"]]
    /\ UNCHANGED <<storeVars, lockVars, voiceVars, fs, ghostVars>>

\* mutant of PlayLockPlaylist: read() instead of write(), which excludes nobody
PlayLockPlaylist_read(t) ==
    /\ Op(t) = "play" /\ Pc(t) = "play_lock_playlist"
    /\ playlist_lock = NoTask
    /\ task' = [task EXCEPT ![t].pc = "play_lock_call"]
    /\ UNCHANGED <<storeVars, lockVars, voiceVars, fs, ghostVars>>

\* state.system_playlist.write().await
PlayLockPlaylist(t) ==
    /\ Op(t) = "play" /\ Pc(t) = "play_lock_playlist"
    /\ playlist_lock = NoTask
    /\ playlist_lock' = t
    /\ task' = [task EXCEPT ![t].pc = "play_lock_call"]
    /\ UNCHANGED <<storeVars, call_lock, voiceVars, fs, ghostVars>>

\* call.lock().await
PlayLockCall(t) ==
    /\ Op(t) = "play" /\ Pc(t) = "play_lock_call"
    /\ call_lock[G(t)][H(t)] = NoTask
    /\ call_lock' = [call_lock EXCEPT ![G(t)][H(t)] = t]
    /\ task' = [task EXCEPT ![t].pc = "play_add"]
    /\ UNCHANGED <<storeVars, playlist_lock, voiceVars, fs, ghostVars>>

\* mutant of PlayAdd: the advance is started whatever is_playing tells
PlayAdd_always_advances(t, kind, res, maxq) ==
    /\ Op(t) = "play" /\ Pc(t) = "play_add"
    /\ Len(Queue(G(t))) + Len(res.items) <= maxq
    /\ LET r == add(guilds_playlists, G(t), kind, res)
       IN /\ guilds_playlists' = r.lists
          /\ task' = [task EXCEPT ![t] =
                IF ~r.ok
                THEN [@ EXCEPT !.pc = "ret", !.res = "Error adding to the playlist"]
                ELSE [@ EXCEPT !.pc = "adv_consume", !.q0 = r.lists[G(t)],
                               !.flag0 = is_playing(guilds_playing, G(t)),
                               !.track0 = track[G(t)]]]
    /\ UNCHANGED <<guilds_playing, lockVars, voiceVars, fs, ghostVars>>

\* playlist.add(&guild_id, input).await returned, and the branch on is_playing
PlayAdd(t, kind, res, maxq) ==
    /\ Op(t) = "play" /\ Pc(t) = "play_add"
    /\ Len(Queue(G(t))) + Len(res.items) <= maxq
    /\ LET r == add(guilds_playlists, G(t), kind, res)
       IN /\ guilds_playlists' = r.lists
          /\ task' = [task EXCEPT ![t] =
                IF ~r.ok
                THEN [@ EXCEPT !.pc = "ret", !.res = "Error adding to the playlist"]
                ELSE IF is_playing(guilds_playing, G(t))
                THEN [@ EXCEPT !.pc = "ret", !.res = "added", !.q0 = r.lists[G(t)],
                               !.flag0 = TRUE, !.track0 = track[G(t)]]
                ELSE [@ EXCEPT !.pc = "adv_consume", !.q0 = r.lists[G(t)],
                               !.flag0 = FALSE, !.track0 = track[G(t)]]]
    /\ UNCHANGED <<guilds_playing, lockVars, voiceVars, fs, ghostVars>>

\* mutant of ConsumeAndPlayConsume: the None arm leaves the playing flag alone
ConsumeAndPlayConsume_keeps_flag(t) ==
    /\ Op(t) \in {"play", "skip"} /\ Pc(t) = "adv_consume"
    /\ LET r == consume(guilds_playlists, G(t))
       IN /\ guilds_playlists' = r.lists
          /\ IF r.item # NoItem
             THEN /\ guilds_playing' = set_status(guilds_playing, G(t), TRUE)
                  /\ task' = [task EXCEPT ![t].pc = "adv_media", ![t].item = r.item]
             ELSE /\ UNCHANGED guilds_playing
                  /\ task' = [task EXCEPT ![t].pc = "remove", ![t].res = "None",
                                          ![t].finished = @ + 1]
    /\ UNCHANGED <<lockVars, voiceVars, fs, ghostVars>>

\* ---- consume_and_play (play and skip): playlist.consume and the match on it
ConsumeAndPlayConsume(t) ==
    /\ Op(t) \in {"play", "skip"} /\ Pc(t) = "adv_consume"
    /\ LET r == consume(guilds_playlists, G(t))
       IN /\ guilds_playlists' = r.lists
          /\ IF r.item # NoItem
             THEN /\ guilds_playing' = set_status(guilds_playing, G(t), TRUE)
                  /\ task' = [task EXCEPT ![t].pc = "adv_media", ![t].item = r.item]
             ELSE /\ guilds_playing' = set_status(guilds_playing, G(t), FALSE)
                  /\ task' = [task EXCEPT ![t].pc = "remove", ![t].res = "None",
                                          ![t].finished = @ + 1]
    /\ UNCHANGED <<lockVars, voiceVars, fs, ghostVars>>

\* mutant of ConsumeAndPlayMedia: the Err arm retries without the notice
ConsumeAndPlayMedia_silent(t) ==
    /\ Op(t) \in {"play", "skip"} /\ Pc(t) = "adv_media"
    /\ UNCHANGED <<guilds_playlists, lockVars, current, ghostVars>>
    /\ \E m \in GetMediaOutcomes(fs, task[t].item) :
        /\ fs' = m.fs
        /\ IF m.ok
           THEN /\ track' = play_only_input(G(t), H(t), task[t].item)
                /\ task' = [task EXCEPT ![t].pc = "ret", ![t].attempts = @ + 1,
                              ![t].nowplaying = @ + 1,
                              ![t].notices = Append(@, <<"Now playing", task[t].item>>),
                              ![t].deadplay = ~Live(G(t), H(t)),
                              ![t].res = IF Op(t) = "skip" THEN "Song skipped" ELSE "Some"]
                /\ UNCHANGED guilds_playing
           ELSE /\ guilds_playing' = set_status(guilds_playing, G(t), FALSE)
                /\ task' = [task EXCEPT ![t].pc = "adv_consume", ![t].attempts = @ + 1,
                              ![t].item = NoItem]
                /\ UNCHANGED track

\* mutant of ConsumeAndPlayMedia: the Err arm puts the item back in the queue
ConsumeAndPlayMedia_requeues(t) ==
    /\ Op(t) \in {"play", "skip"} /\ Pc(t) = "adv_media"
    /\ UNCHANGED <<lockVars, current, ghostVars>>
    /\ \E m \in GetMediaOutcomes(fs, task[t].item) :
        /\ fs' = m.fs
        /\ IF m.ok
           THEN /\ track' = play_only_input(G(t), H(t), task[t].item)
                /\ task' = [task EXCEPT ![t].pc = "ret", ![t].attempts = @ + 1,
                              ![t].nowplaying = @ + 1,
                              ![t].notices = Append(@, <<"Now playing", task[t].item>>),
                              ![t].deadplay = ~Live(G(t), H(t)),
                              ![t].res = IF Op(t) = "skip" THEN "Song skipped" ELSE "Some"]
                /\ UNCHANGED <<guilds_playing, guilds_playlists>>
           ELSE /\ guilds_playing' = set_status(guilds_playing, G(t), FALSE)
                /\ guilds_playlists' = MapPut(guilds_playlists, G(t),
                                              Append(Queue(G(t)), task[t].item))
                /\ task' = [task EXCEPT ![t].pc = "adv_consume", ![t].attempts = @ + 1,
                              ![t].cannot = @ + 1,
                              ![t].notices = Append(@, <<"Cannot play", task[t].item>>),
                              ![t].item = NoItem]
                /\ UNCHANGED track

\* playlist.get_media(&playlist_item).await returned
ConsumeAndPlayMedia(t) ==
    /\ Op(t) \in {"play", "skip"} /\ Pc(t) = "adv_media"
    /\ UNCHANGED <<guilds_playlists, lockVars, current, ghostVars>>
    /\ \E m \in GetMediaOutcomes(fs, task[t].item) :
        /\ fs' = m.fs
        /\ IF m.ok
           THEN /\ track' = play_only_input(G(t), H(t), task[t].item)
                /\ task' = [task EXCEPT ![t].pc = "ret", ![t].attempts = @ + 1,
                              ![t].nowplaying = @ + 1,
                              ![t].notices = Append(@, <<"Now playing", task[t].item>>),
                              ![t].deadplay = ~Live(G(t), H(t)),
                              ![t].res = IF Op(t) = "skip" THEN "Song skipped" ELSE "Some"]
                /\ UNCHANGED guilds_playing
           ELSE /\ guilds_playing' = set_status(guilds_playing, G(t), FALSE)
                /\ task' = [task EXCEPT ![t].pc = "adv_consume", ![t].attempts = @ + 1,
                              ![t].cannot = @ + 1,
                              ![t].notices = Append(@, <<"Cannot play", task[t].item>>),
                              ![t].item = NoItem]
                /\ UNCHANGED track

\* ---- songbird.remove(guild_id).await after the queue ran out (play, skip,
\* track end) or after leave cleared it
Remove(t) ==
    /\ Pc(t) = "remove"
    /\ RemoveEnabled(G(t))
    /\ current' = [current EXCEPT ![G(t)] = NoCall]
    /\ track' = [track EXCEPT ![G(t)] = NoItem]
    /\ task' = [task EXCEPT ![t].pc = "ret",
                  ![t].res = CASE Op(t) = "play" -> "Left voice channel"
                               [] Op(t) = "skip" -> "Queue ended"
                               [] Op(t) = "leave" -> "Disconnected"
                               [] OTHER -> "None"]
    /\ UNCHANGED <<storeVars, lockVars, fs, ghostVars>>

\* ---- SkipCommand::run
\* no call for the guild, or the author in no voice channel: only a response
SkipReject(t, g, u) ==
    /\ Pc(t) = "idle"
    /\ ~Registered(g) \/ u = "none"
    /\ task' = [task EXCEPT ![t] = [Start("skip", g, "ret") EXCEPT
                  !.res = IF ~Registered(g) THEN "Not in voice channel"
                          ELSE "User not in a voice channel"]]
    /\ UNCHANGED <<storeVars, lockVars, voiceVars, fs, ghostVars>>

SkipStart(t, g, u) ==
    /\ Pc(t) = "idle"
    /\ Registered(g) /\ u # "none"
    /\ task' = [task EXCEPT ![t] = [Start("skip", g, "skip_lock_call") EXCEPT
                  !.handle = current[g], !.user = u]]
    /\ UNCHANGED <<storeVars, lockVars, voiceVars, fs, ghostVars>>

\* mutant of SkipLockCall: the call is stopped before the channels are compared
SkipLockCall_stops_first(t) ==
    /\ Op(t) = "skip" /\ Pc(t) = "skip_lock_call"
    /\ call_lock[G(t)][H(t)] = NoTask
    /\ track' = stop(G(t), H(t))
    /\ IF ~Live(G(t), H(t))
       THEN /\ task' = [task EXCEPT ![t].pc = "ret", ![t].res = "panic"]
            /\ UNCHANGED call_lock
       ELSE IF task[t].user = "other"
       THEN /\ task' = [task EXCEPT ![t].pc = "ret", ![t].res = "User not in the channel"]
            /\ UNCHANGED call_lock
       ELSE /\ task' = [task EXCEPT ![t].pc = "skip_lock_playlist"]
            /\ call_lock' = [call_lock EXCEPT ![G(t)][H(t)] = t]
    /\ UNCHANGED <<storeVars, playlist_lock, current, fs, ghostVars>>

\* call.lock().await, then the channel comparison; current_channel().unwrap()
\* panics on a call that has left its channel
SkipLockCall(t) ==
    /\ Op(t) = "skip" /\ Pc(t) = "skip_lock_call"
    /\ call_lock[G(t)][H(t)] = NoTask
    /\ IF ~Live(G(t), H(t))
       THEN /\ task' = [task EXCEPT ![t].pc = "ret", ![t].res = "panic"]
            /\ UNCHANGED call_lock
       ELSE IF task[t].user = "other"
       THEN /\ task' = [task EXCEPT ![t].pc = "ret", ![t].res = "User not in the channel"]
            /\ UNCHANGED call_lock
       ELSE /\ task' = [task EXCEPT ![t].pc = "skip_lock_playlist"]
            /\ call_lock' = [call_lock EXCEPT ![G(t)][H(t)] = t]
    /\ UNCHANGED <<storeVars, playlist_lock, voiceVars, fs, ghostVars>>

\* state.system_playlist.write().await
SkipLockPlaylist(t) ==
    /\ Op(t) = "skip" /\ Pc(t) = "skip_lock_playlist"
    /\ playlist_lock = NoTask
    /\ playlist_lock' = t
    /\ task' = [task EXCEPT ![t].pc = "skip_stop"]
    /\ UNCHANGED <<storeVars, call_lock, voiceVars, fs, ghostVars>>

\* mutant of song_skip: the test on is_playing negated
song_skip_negated(t) ==
    /\ Op(t) = "skip" /\ Pc(t) = "skip_stop"
    /\ track' = stop(G(t), H(t))
    /\ LET p == is_playing(guilds_playing, G(t))
       IN task' = [task EXCEPT ![t].q0 = Queue(G(t)), ![t].flag0 = p,
                     ![t].track0 = track[G(t)],
                     ![t].pc = IF ~p THEN "adv_consume" ELSE "ret",
                     ![t].res = IF ~p THEN @ ELSE "Nothing to play"]
    /\ UNCHANGED <<storeVars, lockVars, current, fs, ghostVars>>

\* song_skip: call.stop(), then the branch on is_playing
song_skip(t) ==
    /\ Op(t) = "skip" /\ Pc(t) = "skip_stop"
    /\ track' = stop(G(t), H(t))
    /\ LET p == is_playing(guilds_playing, G(t))
       IN task' = [task EXCEPT ![t].q0 = Queue(G(t)), ![t].flag0 = p,
                     ![t].track0 = track[G(t)],
                     ![t].pc = IF p THEN "adv_consume" ELSE "ret",
                     ![t].res = IF p THEN @ ELSE "Nothing to play"]
    /\ UNCHANGED <<storeVars, lockVars, current, fs, ghostVars>>

\* ---- LeaveCommand::run
LeaveReject(t, g, u) ==
    /\ Pc(t) = "idle"
    /\ ~Registered(g) \/ u = "none"
    /\ task' = [task EXCEPT ![t] = [Start("leave", g, "ret") EXCEPT
                  !.res = IF ~Registered(g) THEN "Not in voice channel"
                          ELSE "User not in a voice channel"]]
    /\ UNCHANGED <<storeVars, lockVars, voiceVars, fs, ghostVars>>

LeaveStart(t, g, u) ==
    /\ Pc(t) = "idle"
    /\ Registered(g) /\ u # "none"
    /\ task' = [task EXCEPT ![t] = [Start("leave", g, "leave_lock_call") EXCEPT
                  !.handle = current[g], !.user = u]]
    /\ UNCHANGED <<storeVars, lockVars, voiceVars, fs, ghostVars>>

\* call.lock().await, the channel comparison, drop(call)
LeaveLockCall(t) ==
    /\ Op(t) = "leave" /\ Pc(t) = "leave_lock_call"
    /\ call_lock[G(t)][H(t)] = NoTask
    /\ task' = [task EXCEPT ![t] =
          IF ~Live(G(t), H(t)) THEN [@ EXCEPT !.pc = "ret", !.res = "panic"]
          ELSE IF @.user = "other"
          THEN [@ EXCEPT !.pc = "ret", !.res = "User not in the channel"]
          ELSE [@ EXCEPT !.pc = "leave_clear"]]
    /\ UNCHANGED <<storeVars, lockVars, voiceVars, fs, ghostVars>>

\* mutant of LeaveClear: the store is cleared without the write lock
LeaveClear_unlocked(t) ==
    /\ Op(t) = "leave" /\ Pc(t) = "leave_clear"
    /\ guilds_playlists' = clear(guilds_playlists, G(t)).lists
    /\ guilds_playing' = set_status(guilds_playing, G(t), FALSE)
    /\ task' = [task EXCEPT ![t].pc = "remove"]
    /\ UNCHANGED <<lockVars, voiceVars, fs, ghostVars>>

\* system_playlist.write().await; clear; set_status(false); drop(playlist)
LeaveClear(t) ==
    /\ Op(t) = "leave" /\ Pc(t) = "leave_clear"
    /\ playlist_lock = NoTask
    /\ guilds_playlists' = clear(guilds_playlists, G(t)).lists
    /\ guilds_playing' = set_status(guilds_playing, G(t), FALSE)
    /\ task' = [task EXCEPT ![t].pc = "remove"]
    /\ UNCHANGED <<lockVars, voiceVars, fs, ghostVars>>

\* ---- TrackEndNotifier::act
\* the track the call plays ends; songbird runs the call's global End handler
TrackEnd(t, g) ==
    /\ Pc(t) = "idle"
    /\ track[g] # NoItem
    /\ track' = [track EXCEPT ![g] = NoItem]
    /\ task' = [task EXCEPT ![t] =
                  [Start("track_end", g, "te_lock_call") EXCEPT !.handle = current[g]]]
    /\ UNCHANGED <<storeVars, lockVars, current, fs, ghostVars>>

\* self.call.lock().await
ActLockCall(t) ==
    /\ Op(t) = "track_end" /\ Pc(t) = "te_lock_call"
    /\ call_lock[G(t)][H(t)] = NoTask
    /\ call_lock' = [call_lock EXCEPT ![G(t)][H(t)] = t]
    /\ task' = [task EXCEPT ![t].pc = "te_lock_playlist"]
    /\ UNCHANGED <<storeVars, playlist_lock, voiceVars, fs, ghostVars>>

\* self.playlist.write().await
ActLockPlaylist(t) ==
    /\ Op(t) = "track_end" /\ Pc(t) = "te_lock_playlist"
    /\ playlist_lock = NoTask
    /\ playlist_lock' = t
    /\ task' = [task EXCEPT ![t].pc = "adv_consume", ![t].q0 = Queue(G(t)),
                            ![t].flag0 = is_playing(guilds_playing, G(t))]
    /\ UNCHANGED <<storeVars, call_lock, voiceVars, fs, ghostVars>>

\* mutant of ConsumeAndPlayOnEndConsume: the None arm leaves the playing flag alone
ConsumeAndPlayOnEndConsume_keeps_flag(t) ==
    /\ Op(t) = "track_end" /\ Pc(t) = "adv_consume"
    /\ LET r == consume(guilds_playlists, G(t))
       IN /\ guilds_playlists' = r.lists
          /\ IF r.item # NoItem
             THEN /\ task' = [task EXCEPT ![t].pc = "adv_media", ![t].item = r.item]
                  /\ UNCHANGED call_lock
             ELSE /\ call_lock' = [call_lock EXCEPT ![G(t)][H(t)] = NoTask]
                  /\ task' = [task EXCEPT ![t].pc = "remove", ![t].res = "None",
                                          ![t].finished = @ + 1]
    /\ UNCHANGED <<guilds_playing, playlist_lock, voiceVars, fs, ghostVars>>

\* mutant of ConsumeAndPlayOnEndConsume: act keeps the call guard over remove
ConsumeAndPlayOnEndConsume_keeps_guard(t) ==
    /\ Op(t) = "track_end" /\ Pc(t) = "adv_consume"
    /\ LET r == consume(guilds_playlists, G(t))
       IN /\ guilds_playlists' = r.lists
          /\ IF r.item # NoItem
             THEN /\ task' = [task EXCEPT ![t].pc = "adv_media", ![t].item = r.item]
                  /\ UNCHANGED guilds_playing
             ELSE /\ guilds_playing' = set_status(guilds_playing, G(t), FALSE)
                  /\ task' = [task EXCEPT ![t].pc = "remove", ![t].res = "None",
                                          ![t].finished = @ + 1]
    /\ UNCHANGED <<lockVars, voiceVars, fs, ghostVars>>

\* consume_and_play_on_end: playlist.consume and the match on it; on None act
\* sends "Queue finished" and drops the call guard before manager.remove
ConsumeAndPlayOnEndConsume(t) ==
    /\ Op(t) = "track_end" /\ Pc(t) = "adv_consume"
    /\ LET r == consume(guilds_playlists, G(t))
       IN /\ guilds_playlists' = r.lists
          /\ IF r.item # NoItem
             THEN /\ task' = [task EXCEPT ![t].pc = "adv_media", ![t].item = r.item]
                  /\ UNCHANGED <<guilds_playing, call_lock>>
             ELSE /\ guilds_playing' = set_status(guilds_playing, G(t), FALSE)
                  /\ call_lock' = [call_lock EXCEPT ![G(t)][H(t)] = NoTask]
                  /\ task' = [task EXCEPT ![t].pc = "remove", ![t].res = "None",
                                          ![t].finished = @ + 1]
    /\ UNCHANGED <<playlist_lock, voiceVars, fs, ghostVars>>

\* mutant of ConsumeAndPlayOnEndMedia: the Err arm sends no notice
ConsumeAndPlayOnEndMedia_silent(t) ==
    /\ Op(t) = "track_end" /\ Pc(t) = "adv_media"
    /\ UNCHANGED <<storeVars, lockVars, current, ghostVars>>
    /\ \E m \in GetMediaOutcomes(fs, task[t].item) :
        /\ fs' = m.fs
        /\ IF m.ok
           THEN /\ track' = play_only_input(G(t), H(t), task[t].item)
                /\ task' = [task EXCEPT ![t].pc = "ret", ![t].attempts = @ + 1,
                              ![t].nowplaying = @ + 1,
                              ![t].notices = Append(@, <<"Now playing", task[t].item>>),
                              ![t].deadplay = ~Live(G(t), H(t)), ![t].res = "Some"]
           ELSE /\ task' = [task EXCEPT ![t].pc = "adv_consume", ![t].attempts = @ + 1,
                              ![t].item = NoItem]
                /\ UNCHANGED track

\* playlist.get_media(&item).await returned
ConsumeAndPlayOnEndMedia(t) ==
    /\ Op(t) = "track_end" /\ Pc(t) = "adv_media"
    /\ UNCHANGED <<storeVars, lockVars, current, ghostVars>>
    /\ \E m \in GetMediaOutcomes(fs, task[t].item) :
        /\ fs' = m.fs
        /\ IF m.ok
           THEN /\ track' = play_only_input(G(t), H(t), task[t].item)
                /\ task' = [task EXCEPT ![t].pc = "ret", ![t].attempts = @ + 1,
                              ![t].nowplaying = @ + 1,
                              ![t].notices = Append(@, <<"Now playing", task[t].item>>),
                              ![t].deadplay = ~Live(G(t), H(t)), ![t].res = "Some"]
           ELSE /\ task' = [task EXCEPT ![t].pc = "adv_consume", ![t].attempts = @ + 1,
                              ![t].cannot = @ + 1,
                              ![t].notices = Append(@, <<"Cannot play", task[t].item>>),
                              ![t].item = NoItem]
                /\ UNCHANGED track

\* ---- the handler's future completes: every guard it still holds is dropped
Return(t) ==
    /\ Pc(t) = "ret"
    /\ playlist_lock' = IF playlist_lock = t THEN NoTask ELSE playlist_lock
    /\ call_lock' = ReleasedCalls(t)
    /\ task' = [task EXCEPT ![t] = IdleTask]
    /\ UNCHANGED <<storeVars, voiceVars, fs, ghostVars>>

\* the handlers of the guilds GS, with queues of at most maxq items
NextOn(GS, maxq) ==
    \/ \E t \in Tasks, g \in GS : PlayNotInVoice(t, g)
    \/ \E t \in Tasks, g \in GS : PlayJoin(t, g)
    \/ \E t \in Tasks, g \in GS : PlayJoinFailed(t, g)
    \/ \E t \in Tasks : PlayLockPlaylist(t)
    \/ \E t \in Tasks : PlayLockCall(t)
    \/ \E t \in Tasks, kind \in InputKinds, res \in Resolutions : PlayAdd(t, kind, res, maxq)
    \/ \E t \in Tasks : ConsumeAndPlayConsume(t)
    \/ \E t \in Tasks : ConsumeAndPlayMedia(t)
    \/ \E t \in Tasks : Remove(t)
    \/ \E t \in Tasks, g \in GS, u \in UserStates : SkipReject(t, g, u)
    \/ \E t \in Tasks, g \in GS, u \in UserStates : SkipStart(t, g, u)
    \/ \E t \in Tasks : SkipLockCall(t)
    \/ \E t \in Tasks : SkipLockPlaylist(t)
    \/ \E t \in Tasks : song_skip(t)
    \/ \E t \in Tasks, g \in GS, u \in UserStates : LeaveReject(t, g, u)
    \/ \E t \in Tasks, g \in GS, u \in UserStates : LeaveStart(t, g, u)
    \/ \E t \in Tasks : LeaveLockCall(t)
    \/ \E t \in Tasks : LeaveClear(t)
    \/ \E t \in Tasks, g \in GS : TrackEnd(t, g)
    \/ \E t \in Tasks : ActLockCall(t)
    \/ \E t \in Tasks : ActLockPlaylist(t)
    \/ \E t \in Tasks : ConsumeAndPlayOnEndConsume(t)
    \/ \E t \in Tasks : ConsumeAndPlayOnEndMedia(t)
    \/ \E t \in Tasks : Return(t)

\* one guild, queues up to MaxQueue
Next == NextOn({"g1"}, MaxQueue)

Spec == Init /\ [][Next]_vars

\* ---------------------------------------------------------- ScenarioSpec
\* One guild and three items, each in the media cache or not: one /play of a
\* URL that resolves to the three, the End event of each track that plays to
\* its end, and one /skip by a user in the bot's channel while the second
\* plays.  Every get_media succeeds, from the cache or by a download.  The
\* handlers are the actions of Spec.
ScenarioQueue == <<"A", "B", "C">>

ScenarioInit ==
    /\ StoreEmpty
    /\ fs \in [{"A", "B", "C"} -> {"file", "none"}]

ScenarioNext ==
    \/ \E t \in Tasks : /\ guilds_playlists = <<>> /\ current["g1"] = NoCall
                         /\ \A u \in Tasks : Pc(u) = "idle"
                         /\ PlayJoin(t, "g1")
    \/ \E t \in Tasks : PlayLockPlaylist(t)
    \/ \E t \in Tasks : PlayLockCall(t)
    \/ \E t \in Tasks :
          PlayAdd(t, "Url", [ok |-> TRUE, items |-> ScenarioQueue], Len(ScenarioQueue))
    \/ \E t \in Tasks : ConsumeAndPlayConsume(t)
    \/ \E t \in Tasks : ConsumeAndPlayMedia(t) /\ task'[t].cannot = task[t].cannot
    \/ \E t \in Tasks : Remove(t)
    \/ \E t \in Tasks : /\ track["g1"] = ScenarioQueue[2]
                         /\ \A u \in Tasks : Op(u) # "skip"
                         /\ SkipStart(t, "g1", "same")
    \/ \E t \in Tasks : SkipLockCall(t)
    \/ \E t \in Tasks : SkipLockPlaylist(t)
    \/ \E t \in Tasks : song_skip(t)
    \/ \E t \in Tasks : /\ track["g1"] \in {ScenarioQueue[1], ScenarioQueue[3]}
                         /\ TrackEnd(t, "g1")
    \/ \E t \in Tasks : ActLockCall(t)
    \/ \E t \in Tasks : ActLockPlaylist(t)
    \/ \E t \in Tasks : ConsumeAndPlayOnEndConsume(t)
    \/ \E t \in Tasks : ConsumeAndPlayOnEndMedia(t) /\ task'[t].cannot = task[t].cannot
    \/ \E t \in Tasks : Return(t)

\* tokio runs every task that can run; the events are those of the scenario
ScenarioSpec == ScenarioInit /\ [][ScenarioNext]_vars /\ WF_vars(ScenarioNext)

\* ================================================================= claims

StoreGuilds == Guilds
SpecGuilds == {"g1"}

\* ---- C1 (StoreSpec)
\* C1: for every guild, the items consume has returned followed by the items
\* still queued are exactly the items add appended, in the order add appended
\* them; a consume that returns an item returns the head of the queue it found
\* and leaves that queue without its head, one item shorter.
C1_ConsumeInsertionOrder ==
    /\ \A g \in StoreGuilds : consumed[g] \o Queue(g) = added[g]
    /\ (last.op = "consume" /\ last.ok) =>
          /\ last.before # <<>>
          /\ last.item = Head(last.before)
          /\ Queue(last.guild) = Tail(last.before)
          /\ Len(Queue(last.guild)) = Len(last.before) - 1

\* two different items came back in the order they were enqueued
C1_Witness ==
    /\ last.op = "consume" /\ last.ok /\ last.guild = "g1"
    /\ Len(consumed["g1"]) = 2
    /\ consumed["g1"][1] # consumed["g1"][2]
    /\ consumed["g1"] = added["g1"]

\* ---- advance bookkeeping (Spec)
InAdvance(t) == Pc(t) \in {"adv_consume", "adv_media"}

\* consume_and_play returned Some(()) to play or skip
CmdAdvanceStarted(t) ==
    /\ Pc(t) = "ret" /\ Op(t) \in {"play", "skip"}
    /\ task[t].res \in {"Some", "Song skipped"}

\* consume_and_play returned None to play or skip
CmdAdvanceFinished(t) == Pc(t) = "remove" /\ Op(t) \in {"play", "skip"}

\* a track-end handler for the guild is waiting for the call lock
EndPending(g) ==
    \E u \in Tasks : Op(u) = "track_end" /\ Pc(u) = "te_lock_call" /\ G(u) = g

\* the call of the task plays item i, unless that track has ended already
Playing(t, i) ==
    Live(G(t), H(t)) => (track[G(t)] = i \/ (track[G(t)] = NoItem /\ EndPending(G(t))))

\* C2: when consume_and_play returns Some after K failed materializations on
\* a queue of N items, K < N, it made K + 1 attempts, sent K "cannot play"
\* notices and one "now playing", the item it started is item K + 1 of the
\* queue, is_playing is true and the queue holds items K + 2 .. N in order.
C2_AdvanceStartsFirstPlayable ==
    \A t \in Tasks : CmdAdvanceStarted(t) =>
        LET K == task[t].cannot
            N == Len(task[t].q0)
        IN /\ K < N
           /\ task[t].attempts = K + 1
           /\ task[t].nowplaying = 1
           /\ task[t].finished = 0
           /\ task[t].item = task[t].q0[K + 1]
           /\ Playing(t, task[t].q0[K + 1])
           /\ is_playing(guilds_playing, G(t))
           /\ Queue(G(t)) = SubSeq(task[t].q0, K + 2, N)

\* one failure, then a success, and one item left (N = 3, K = 1)
C2_Witness ==
    \E t \in Tasks : /\ CmdAdvanceStarted(t)
                     /\ task[t].cannot = 1
                     /\ Len(task[t].q0) = 3
                     /\ Len(Queue(G(t))) = 1

\* C3: when consume_and_play returns None on a queue of N >= 0 items, all N
\* failed: N attempts, N "cannot play" notices, no item started, one "queue
\* finished", the queue empty and is_playing false.
C3_AdvanceExhausts ==
    \A t \in Tasks : CmdAdvanceFinished(t) =>
        LET N == Len(task[t].q0)
        IN /\ task[t].cannot = N
           /\ task[t].attempts = N
           /\ task[t].nowplaying = 0
           /\ task[t].finished = 1
           /\ task[t].res = "None"
           /\ Queue(G(t)) = <<>>
           /\ ~is_playing(guilds_playing, G(t))

\* the queue [X] with X failing: one notice
C3_Witness ==
    \E t \in Tasks : /\ CmdAdvanceFinished(t)
                     /\ Len(task[t].q0) = 1
                     /\ task[t].cannot = 1

\* ---- locks
\* the task awaits the Mutex of a Call: the lock() of a handler, or the one
\* inside Songbird::remove
AwaitsCall(t) ==
    \/ Pc(t) \in {"play_lock_call", "skip_lock_call", "leave_lock_call", "te_lock_call"}
    \/ Pc(t) = "remove" /\ Registered(G(t))

AwaitedCall(t) == IF Pc(t) = "remove" THEN current[G(t)] ELSE H(t)

\* the task awaits system_playlist.write()
AwaitsPlaylist(t) ==
    Pc(t) \in {"play_lock_playlist", "skip_lock_playlist", "te_lock_playlist",
               "leave_clear"}

HoldsLock(t) ==
    \/ playlist_lock = t
    \/ \E g \in Guilds, c \in Calls : call_lock[g][c] = t

\* who holds the lock the task awaits; NoTask: the lock is free, or the task
\* awaits none
Blocker(t) ==
    IF AwaitsCall(t) THEN call_lock[G(t)][AwaitedCall(t)]
    ELSE IF AwaitsPlaylist(t) THEN playlist_lock
    ELSE NoTask

RECURSIVE BlockedChain(_, _)
BlockedChain(t, n) ==
    IF n = 0 THEN TRUE
    ELSE Blocker(t) # NoTask /\ BlockedChain(Blocker(t), n - 1)

\* the task waits for a lock whose holder waits ... for a lock the chain
\* holds: none of them ever runs again
WaitsForever(t) == BlockedChain(t, Cardinality(Tasks) + 1)

\* C4: a handler that found the queue exhausted (play, skip, track end) has
\* sent exactly one "queue finished" and its Songbird::remove can complete:
\* it does not wait for a lock that is never released.
C4_ExhaustionReleasesConnection ==
    \A t \in Tasks : (Pc(t) = "remove" /\ Op(t) # "leave") =>
        /\ task[t].finished = 1
        /\ ~WaitsForever(t)

\* C5: no task that holds the call lock or the playlist write lock waits
\* forever for a lock.
C5_NoLockHolderWaitsForever ==
    \A t \in Tasks : HoldsLock(t) => ~WaitsForever(t)

\* C6: no task awaits a call lock while it holds the playlist write lock.
C6_CallLockBeforePlaylistLock ==
    \A t \in Tasks : AwaitsCall(t) => playlist_lock # t

\* C7: a task inside an advance holds the playlist write lock and the lock
\* of its call; no two tasks are inside an advance; and the store is what
\* the advance itself made of it: the queue is the queue the advance found
\* minus the items it consumed, so nothing was enqueued or cleared meanwhile.
C7_OneAdvanceUnderBothLocks ==
    /\ \A t \in Tasks : InAdvance(t) =>
          /\ playlist_lock = t
          /\ call_lock[G(t)][H(t)] = t
          /\ LET n == task[t].attempts + (IF Pc(t) = "adv_media" THEN 1 ELSE 0)
             IN /\ n <= Len(task[t].q0)
                /\ Queue(G(t)) = SubSeq(task[t].q0, n + 1, Len(task[t].q0))
                /\ Pc(t) = "adv_media" => task[t].item = task[t].q0[n]
    /\ \A t, u \in Tasks : (InAdvance(t) /\ InAdvance(u)) => t = u

\* an advance in its retry while the other task waits for the playlist lock
C7_Witness ==
    \E t, u \in Tasks : /\ InAdvance(t) /\ task[t].cannot = 1
                        /\ Pc(t) = "adv_media"
                        /\ AwaitsPlaylist(u) /\ G(u) = G(t)

\* C8: a skip that found is_playing true and whose advance found an item
\* that materializes answers "Song skipped": the track playing before is
\* stopped, the first item that materializes is started, each item before it
\* got one "cannot play" notice and the items after it stay queued in order.
\* While the skip advances the call plays nothing.
C8_SkipMovesToNextPlayable ==
    \A t \in Tasks : Op(t) = "skip" =>
        /\ (InAdvance(t) \/ Pc(t) = "remove") =>
              /\ task[t].flag0
              /\ Live(G(t), H(t)) /\ track[G(t)] = NoItem
        /\ Pc(t) = "ret" =>
              (task[t].res = "Song skipped" <=> (task[t].flag0 /\ task[t].nowplaying = 1))
        /\ (Pc(t) = "ret" /\ task[t].res = "Song skipped") =>
              LET K == task[t].cannot
                  N == Len(task[t].q0)
              IN /\ K < N
                 /\ task[t].attempts = K + 1
                 /\ task[t].nowplaying = 1
                 /\ task[t].item = task[t].q0[K + 1]
                 /\ Live(G(t), H(t))
                 /\ Playing(t, task[t].q0[K + 1])
                 /\ is_playing(guilds_playing, G(t))
                 /\ Queue(G(t)) = SubSeq(task[t].q0, K + 2, N)

\* a skip stopped a track, passed one failing item and started the next
C8_Witness ==
    \E t \in Tasks : /\ Op(t) = "skip" /\ Pc(t) = "ret"
                     /\ task[t].res = "Song skipped"
                     /\ task[t].track0 # NoItem
                     /\ task[t].cannot = 1
                     /\ track[G(t)] = task[t].q0[2]
                     /\ Len(Queue(G(t))) = 1

\* C9: a skip that found is_playing true and the queue empty has set
\* is_playing false and its Songbird::remove can complete, so that the
\* command answers "Queue ended" with the connection released.
C9_SkipOnEmptyQueueEnds ==
    \A t \in Tasks : (Op(t) = "skip" /\ Pc(t) = "remove") =>
        /\ ~is_playing(guilds_playing, G(t))
        /\ ~WaitsForever(t)

\* C10 as claimed: a skip that answers "Nothing to play" left the queue, the
\* playing flag and the playback of the call as they were.
C10_SkipIdleChangesNothing ==
    \A t \in Tasks : (Op(t) = "skip" /\ Pc(t) = "ret"
                        /\ task[t].res = "Nothing to play") =>
        /\ ~task[t].flag0
        /\ Queue(G(t)) = task[t].q0
        /\ ~is_playing(guilds_playing, G(t))
        /\ task[t].attempts = 0 /\ task[t].finished = 0
        /\ track[G(t)] = task[t].track0

\* C10 amended: a skip that found is_playing false answers "Nothing to play",
\* leaves the queue and the playing flag as they were and starts no advance;
\* the playback of the call is stopped all the same.
C10_SkipIdleStopsOnly ==
    \A t \in Tasks : (Op(t) = "skip" /\ Pc(t) \in {"adv_consume", "adv_media", "remove", "ret"}
                        /\ task[t].res \notin {"panic", "User not in the channel",
                                               "Not in voice channel",
                                               "User not in a voice channel"}) =>
        /\ task[t].flag0 <=> task[t].res # "Nothing to play"
        /\ task[t].res = "Nothing to play" =>
              /\ Pc(t) = "ret"
              /\ Queue(G(t)) = task[t].q0
              /\ ~is_playing(guilds_playing, G(t))
              /\ task[t].attempts = 0 /\ task[t].cannot = 0
              /\ task[t].nowplaying = 0 /\ task[t].finished = 0
              /\ Live(G(t), H(t)) /\ track[G(t)] = NoItem

\* a skip on a call that was playing while is_playing was false
C10_Witness ==
    \E t \in Tasks : /\ Op(t) = "skip" /\ Pc(t) = "ret"
                     /\ task[t].res = "Nothing to play"
                     /\ task[t].track0 # NoItem
                     /\ track[G(t)] = NoItem

\* ---- C11 (ScenarioSpec)
AfterConsumeLocks(t) == Pc(t) \in {"adv_consume", "adv_media", "remove", "ret"}

\* what each handler of the scenario found and did
C11_Steps ==
    \A t \in Tasks :
        /\ task[t].cannot = 0 /\ ~task[t].deadplay
        /\ (Op(t) = "play" /\ AfterConsumeLocks(t)) =>
              /\ task[t].q0 = ScenarioQueue
              /\ Pc(t) = "ret" =>
                    /\ task[t].res = "Some" /\ task[t].item = ScenarioQueue[1]
                    /\ task[t].attempts = 1 /\ task[t].nowplaying = 1
                    /\ Playing(t, ScenarioQueue[1])
                    /\ Queue(G(t)) = Tail(ScenarioQueue)
        /\ (Op(t) = "track_end" /\ AfterConsumeLocks(t)) =>
              /\ task[t].q0 \in {Tail(ScenarioQueue), <<>>}
              /\ task[t].flag0
              /\ (Pc(t) = "ret" /\ task[t].q0 # <<>>) =>
                    /\ task[t].res = "Some" /\ task[t].item = ScenarioQueue[2]
                    /\ task[t].attempts = 1 /\ task[t].nowplaying = 1
                    /\ track[G(t)] = ScenarioQueue[2]
                    /\ is_playing(guilds_playing, G(t))
                    /\ Queue(G(t)) = <<ScenarioQueue[3]>>
              /\ (Pc(t) \in {"remove", "ret"} /\ task[t].q0 = <<>>) =>
                    /\ task[t].res = "None" /\ task[t].finished = 1
                    /\ task[t].attempts = 0 /\ task[t].nowplaying = 0
                    /\ ~is_playing(guilds_playing, G(t))
                    /\ Queue(G(t)) = <<>>
                    /\ Pc(t) = "ret" => ~Registered(G(t))
        /\ (Op(t) = "skip" /\ AfterConsumeLocks(t)) =>
              /\ task[t].q0 = <<ScenarioQueue[3]>>
              /\ task[t].track0 = ScenarioQueue[2]
              /\ Pc(t) # "remove"
              /\ Pc(t) = "ret" =>
                    /\ task[t].res = "Song skipped" /\ task[t].item = ScenarioQueue[3]
                    /\ task[t].attempts = 1 /\ task[t].nowplaying = 1
                    /\ Playing(t, ScenarioQueue[3])
                    /\ is_playing(guilds_playing, G(t))
                    /\ Queue(G(t)) = <<>>

\* the scenario is over: nothing queued, nothing playing, no connection
C11_Over ==
    /\ \A t \in Tasks : Pc(t) = "idle"
    /\ "g1" \in DOMAIN guilds_playlists /\ Queue("g1") = <<>>
    /\ ~is_playing(guilds_playing, "g1")
    /\ ~Registered("g1") /\ track["g1"] = NoItem
    /\ playlist_lock = NoTask
    /\ \A c \in Calls : call_lock["g1"][c] = NoTask

\* C11: with the queue [A, B, C] and every item materializing, the /play
\* starts A, the End event of A starts B, the /skip answers "Song skipped"
\* with C playing, the End event of C finds the queue finished, sets
\* is_playing false and removes the call; every item is started once, in
\* order, and the run always ends with the connection released.
C11_ScenarioABC == [](C11_Steps) /\ <>[](C11_Over)

\* the End handler of C found the queue finished and has removed the call
C11_Witness ==
    \E t \in Tasks : /\ Op(t) = "track_end" /\ Pc(t) = "ret"
                     /\ task[t].q0 = <<>> /\ task[t].res = "None"
                     /\ ~Registered("g1") /\ fs["C"] = "file"

\* ---- C12 (StoreSpec)
\* the last store call was an add whose resolution returned a list
AddResolved == last.op = "add" /\ Len(last.resolved) > 0

\* the queues of the guilds other than the one of the last call are as before
OtherQueuesKept ==
    \A g \in StoreGuilds \ {last.guild} :
        /\ (g \in DOMAIN guilds_playlists) = (g \in DOMAIN last.store0[1])
        /\ g \in DOMAIN guilds_playlists => guilds_playlists[g] = last.store0[1][g]

\* C12: an add of a URL input of any kind (Url or SpotifyUrl) whose
\* resolution returned M >= 2 items appends all M in resolution order behind
\* the items already queued, returns count M and the slice of those M items.
C12_UrlAppendsAll ==
    (AddResolved /\ last.kind \in {"Url", "SpotifyUrl"} /\ Len(last.resolved) >= 2) =>
        /\ last.ok
        /\ last.count = Len(last.resolved)
        /\ last.slice = last.resolved
        /\ Queue(last.guild) = last.before \o last.resolved
        /\ OtherQueuesKept

\* ---- C13 (StoreSpec)
\* the playing flags are as they were before the last store call
FlagsKept == guilds_playing = last.store0[2]

\* C13: an add of a search input whose resolution returned at least one item
\* appends the first resolved item alone behind the items already queued and
\* returns count 1 and the one-element slice of that item.
C13_SearchAppendsFirst ==
    (AddResolved /\ last.kind = "Search") =>
        /\ last.ok
        /\ last.count = 1
        /\ last.slice = <<last.resolved[1]>>
        /\ Queue(last.guild) = Append(last.before, last.resolved[1])
        /\ OtherQueuesKept /\ FlagsKept

\* the resolver returned two different items for a search, behind a queued one
C13_Witness ==
    /\ AddResolved /\ last.kind = "Search"
    /\ Len(last.resolved) = 2 /\ last.resolved[1] # last.resolved[2]
    /\ Len(last.before) = 1

\* ---- C14 (StoreSpec)
\* C14: an add whose resolution failed or returned no item returns an error
\* and leaves the store as it was: no queue created or changed, no flag changed.
C14_FailedAddChangesNothing ==
    (last.op = "add" /\ Len(last.resolved) = 0) =>
        /\ ~last.ok /\ last.count = 0 /\ last.slice = <<>>
        /\ storeVars = last.store0

\* a failed add for a guild without a queue, beside a guild that has one
C14_Witness ==
    /\ last.op = "add" /\ Len(last.resolved) = 0 /\ ~last.ok
    /\ last.guild \notin DOMAIN guilds_playlists
    /\ \E g \in StoreGuilds : Queue(g) # <<>>

\* ---- C15 (StoreSpec)
\* C15: a consume for a guild that has no queue, or an empty one, returns
\* None and leaves the store as it was.
C15_ConsumeNothing ==
    (last.op = "consume" /\ (last.guild \notin DOMAIN last.store0[1]
                               \/ last.before = <<>>)) =>
        /\ ~last.ok /\ last.item = NoItem
        /\ storeVars = last.store0

\* a consume for a guild without a queue, beside a guild with a queue and a flag
C15_Witness ==
    /\ last.op = "consume" /\ ~last.ok
    /\ last.guild \notin DOMAIN guilds_playlists
    /\ \E g \in StoreGuilds : Queue(g) # <<>> /\ is_playing(guilds_playing, g)

\* ---- C16 (StoreSpec)
\* C16: is_playing is false for every guild at the start; only a set_status
\* on a guild changes that guild's is_playing, and after set_status(g, b)
\* is_playing(g) = b.
C16_FlagFollowsSetStatus ==
    /\ \A g \in StoreGuilds : ~is_playing(guilds_playing, g)
    /\ [](last.op = "set_status" => is_playing(guilds_playing, last.guild) = last.ok)
    /\ [][\A g \in StoreGuilds :
             is_playing(guilds_playing', g) # is_playing(guilds_playing, g)
                => (last'.op = "set_status" /\ last'.guild = g)]_vars

\* a guild whose queue was used but whose flag was never set, beside a
\* playing guild
C16_Witness ==
    /\ last.op \in {"add", "consume", "clear"} /\ last.ok
    /\ last.guild \notin DOMAIN guilds_playing
    /\ \E g \in StoreGuilds : is_playing(guilds_playing, g)

\* ---- C17 (StoreSpec)
\* C17: a set_status(g, b) on a store where the entry of g is b already
\* leaves the store as it was; applied twice, set_status gives what it gives
\* applied once, with one entry for g and is_playing(g) = b.
C17_SetStatusIdempotent ==
    /\ (last.op = "set_status" /\ last.guild \in DOMAIN last.store0[2]
          /\ last.store0[2][last.guild] = last.ok) => storeVars = last.store0
    /\ \A g \in StoreGuilds, b \in BOOLEAN :
          LET once == set_status(guilds_playing, g, b)
              twice == set_status(once, g, b)
          IN /\ twice = once
             /\ is_playing(twice, g) = b
             /\ DOMAIN twice = DOMAIN guilds_playing \cup {g}

\* set_status(g, TRUE) called a second time in a row
C17_Witness ==
    /\ last.op = "set_status" /\ last.ok
    /\ last.guild \in DOMAIN last.store0[2] /\ last.store0[2][last.guild]
    /\ nops = 2

\* ---- C18 (StoreSpec)
\* C18: clear returns true exactly when the guild had a queue; afterwards the
\* guild's queue is empty and a consume on it returns None; the flags and
\* the queues of the other guilds are as they were.
C18_ClearEmptiesOneQueue ==
    last.op = "clear" =>
        /\ last.ok = (last.guild \in DOMAIN last.store0[1])
        /\ (last.guild \in DOMAIN guilds_playlists) = last.ok
        /\ Queue(last.guild) = <<>>
        /\ consume(guilds_playlists, last.guild).item = NoItem
        /\ FlagsKept /\ OtherQueuesKept

\* a queue with items cleared beside another guild's queue with items
C18_Witness ==
    /\ last.op = "clear" /\ last.ok /\ last.before # <<>>
    /\ \E g \in StoreGuilds \ {last.guild} : Queue(g) # <<>>

\* ---- C19 (Spec)
\* the leave command has answered "Disconnected"
LeaveCompleted(t) == Op(t) = "leave" /\ Pc(t) = "ret" /\ task[t].res = "Disconnected"

\* C19: when a leave from the bot's channel completes, the guild's queue is
\* empty, is_playing is false and the manager holds no call for the guild;
\* the clear and the set_status(false) happened in one critical section
\* before the removal.
C19_LeaveEndsStopped ==
    \A t \in Tasks : LeaveCompleted(t) =>
        /\ Queue(G(t)) = <<>>
        /\ ~is_playing(guilds_playing, G(t))
        /\ ~Registered(G(t))

\* ---- C20 (Spec)
\* an advance of any handler returned Some(())
AdvanceStarted(t) == Pc(t) = "ret" /\ task[t].res \in {"Some", "Song skipped"}

\* an advance of any handler returned None: its caller is about to remove
AdvanceFinished(t) == Pc(t) = "remove" /\ Op(t) # "leave"

\* C20: when an advance returns Some, is_playing is true; when it returns
\* None, is_playing is false; and a task that has sent "Queue finished" sees
\* is_playing false for as long as it holds the playlist write lock, so no
\* other task finds the queue declared finished with is_playing true.
C20_FlagAgreesWithAdvance ==
    \A t \in Tasks :
        /\ AdvanceStarted(t) =>
              /\ playlist_lock = t
              /\ is_playing(guilds_playing, G(t))
        /\ AdvanceFinished(t) =>
              /\ playlist_lock = t
              /\ task[t].finished = 1
              /\ ~is_playing(guilds_playing, G(t))
        /\ (task[t].finished > 0 /\ playlist_lock = t) =>
              ~is_playing(guilds_playing, G(t))

\* a track-end advance passed a failing item and started the next one
C20_Witness ==
    \E t \in Tasks : /\ Op(t) = "track_end" /\ AdvanceStarted(t)
                     /\ task[t].cannot = 1
                     /\ is_playing(guilds_playing, G(t))

\* ---- C21 (Spec)
\* the step changes the guild's queue in one of the ways the handlers can:
\* items appended behind it, its head taken by a task that now holds it, or
\* the whole queue cleared
QueueStep(g) ==
    \/ Queue(g)' = Queue(g)
    \/ /\ Len(Queue(g)') > Len(Queue(g))
       /\ SubSeq(Queue(g)', 1, Len(Queue(g))) = Queue(g)
    \/ /\ Queue(g) # <<>> /\ Queue(g)' = Tail(Queue(g))
       /\ \E t \in Tasks : /\ Pc(t) = "adv_consume" /\ G(t) = g
                           /\ task'[t].pc = "adv_media"
                           /\ task'[t].item = Head(Queue(g))
    \/ /\ Queue(g)' = <<>>
       /\ \E t \in Tasks : Op(t) = "leave" /\ Pc(t) = "leave_clear" /\ G(t) = g

\* a track that starts is the item a task of the guild took from the head of
\* the queue in this advance, started by that task as it returns
StartStep(g) ==
    (track'[g] # track[g] /\ track'[g] # NoItem) =>
        \E t \in Tasks : /\ Pc(t) = "adv_media" /\ G(t) = g
                         /\ track'[g] = task[t].item
                         /\ task'[t].pc = "ret" /\ task'[t].nowplaying = 1

\* C21: in every step the queue of the guild only grows at its tail, loses
\* its head to the advance that consumes it, or is cleared, and the item
\* that starts is the head that advance consumed: items start in the order
\* they were enqueued and a queue entry starts at most once.
C21_StartsInQueueOrder == [][\A g \in SpecGuilds : QueueStep(g) /\ StartStep(g)]_vars

\* a track-end advance started the head of a two-item queue
C21_Witness ==
    \E t \in Tasks : /\ Op(t) = "track_end" /\ AdvanceStarted(t)
                     /\ Len(task[t].q0) = 2 /\ task[t].q0[1] # task[t].q0[2]
                     /\ track[G(t)] = task[t].q0[1]
                     /\ Queue(G(t)) = <<task[t].q0[2]>>

\* ---- the two advances as functions of the store (AdvanceSpec)
\* outs[n] tells whether the n-th get_media of the advance succeeds
AdvanceOutcomes == [1..MaxQueue -> BOOLEAN]

AdvResult(lists, playing, ret, started) ==
    [lists |-> lists, playing |-> playing, ret |-> ret, started |-> started,
     consumed |-> <<>>, cannot |-> 0, nowplaying |-> 0, finished |-> 0]

\* mutant of consume_and_play_on_end: a failed item ends the advance
consume_and_play_on_end_gives_up(lists, playing, g, outs, n) ==
    LET r == consume(lists, g)
    IN IF r.item = NoItem
       THEN AdvResult(r.lists, set_status(playing, g, FALSE), "None", NoItem)
       ELSE IF outs[n]
            THEN [AdvResult(r.lists, playing, "Some", r.item)
                     EXCEPT !.consumed = <<r.item>>, !.nowplaying = 1]
            ELSE [AdvResult(r.lists, set_status(playing, g, FALSE), "None", NoItem)
                     EXCEPT !.consumed = <<r.item>>, !.cannot = 1]

RECURSIVE consume_and_play(_, _, _, _, _)
consume_and_play(lists, playing, g, outs, n) ==
    LET r == consume(lists, g)
    IN IF r.item = NoItem
       THEN [AdvResult(r.lists, set_status(playing, g, FALSE), "None", NoItem)
                EXCEPT !.finished = 1]
       ELSE LET p1 == set_status(playing, g, TRUE)
            IN IF outs[n]
               THEN [AdvResult(r.lists, p1, "Some", r.item)
                        EXCEPT !.consumed = <<r.item>>, !.nowplaying = 1]
               ELSE LET rest == consume_and_play(r.lists, set_status(p1, g, FALSE),
                                                 g, outs, n + 1)
                    IN [rest EXCEPT !.consumed = <<r.item>> \o @,
                                    !.cannot = @ + 1]

RECURSIVE consume_and_play_on_end(_, _, _, _, _)
consume_and_play_on_end(lists, playing, g, outs, n) ==
    LET r == consume(lists, g)
    IN IF r.item = NoItem
       THEN AdvResult(r.lists, set_status(playing, g, FALSE), "None", NoItem)
       ELSE IF outs[n]
            THEN [AdvResult(r.lists, playing, "Some", r.item)
                     EXCEPT !.consumed = <<r.item>>, !.nowplaying = 1]
            ELSE LET rest == consume_and_play_on_end(r.lists, playing, g, outs, n + 1)
                 IN [rest EXCEPT !.consumed = <<r.item>> \o @,
                                 !.cannot = @ + 1]

\* the stores an advance can be handed: the guild's queue and flag, each
\* present or absent
AdvanceLists == {<<>>} \cup {[x \in {"g1"} |-> q] : q \in SeqsUpTo(MaxQueue)}
AdvancePlaying == {<<>>} \cup {[x \in {"g1"} |-> b] : b \in BOOLEAN}

\* both advances applied to the same store and the same outcomes
Advance(lists, playing, outs) ==
    /\ last' = [NoLast EXCEPT !.op = "advance", !.guild = "g1",
                              !.before = IF "g1" \in DOMAIN lists THEN lists["g1"] ELSE <<>>,
                              !.ok = is_playing(playing, "g1"),
                              !.store0 = <<consume_and_play(lists, playing, "g1", outs, 1),
                                           consume_and_play_on_end(lists, playing, "g1", outs, 1)>>]
    /\ UNCHANGED <<storeVars, lockVars, voiceVars, fs, task, added, consumed, nops>>

AdvanceNext ==
    \E lists \in AdvanceLists, playing \in AdvancePlaying, outs \in AdvanceOutcomes :
        Advance(lists, playing, outs)

AdvanceSpec == Init /\ [][AdvanceNext]_vars

\* ---- C22 (AdvanceSpec)
ByCommand == last.store0[1]
OnEnd == last.store0[2]

SameWork ==
    /\ ByCommand.consumed = OnEnd.consumed
    /\ ByCommand.cannot = OnEnd.cannot
    /\ ByCommand.ret = OnEnd.ret
    /\ ByCommand.started = OnEnd.started
    /\ ByCommand.lists = OnEnd.lists

SameFlag == is_playing(ByCommand.playing, "g1") = is_playing(OnEnd.playing, "g1")

Resolving(t) == Op(t) = "play" /\ Pc(t) = "play_add"

\* C23: while a play request resolves its input it holds neither the call
\* lock nor the write lock of the queue store.
C23_ResolvesBeforeLocks ==
    \A t \in Tasks : Resolving(t) =>
        /\ playlist_lock # t
        /\ \A g \in Guilds, c \in Calls : call_lock[g][c] # t

\* ---- C24 (Spec)
\* the play's add succeeded: it answered "added" or entered the advance
PlayEnqueued(t) ==
    /\ Op(t) = "play"
    /\ \/ InAdvance(t) \/ Pc(t) = "remove"
       \/ Pc(t) = "ret" /\ task[t].res \in {"added", "Some", "Left voice channel"}

PlayAdvanced(t) == PlayEnqueued(t) /\ task[t].res # "added"

\* C24: a play whose add succeeded starts an advance exactly when is_playing
\* was false at the add; when it was true the play has only appended: until
\* it returns the queue is the one its add left, nothing was consumed or
\* attempted, is_playing is still true and the track of its call is the one
\* that played at the add, unless that has ended by itself meanwhile.
C24_PlayAdvancesIffIdle ==
    \A t \in Tasks : PlayEnqueued(t) =>
        /\ PlayAdvanced(t) <=> ~task[t].flag0
        /\ ~PlayAdvanced(t) =>
              /\ Queue(G(t)) = task[t].q0
              /\ task[t].attempts = 0 /\ task[t].item = NoItem
              /\ task[t].nowplaying = 0 /\ task[t].cannot = 0
              /\ is_playing(guilds_playing, G(t))
              /\ Live(G(t), H(t)) => track[G(t)] \in {task[t].track0, NoItem}

\* a play appended behind a non-empty queue while a track plays on
C24_Witness ==
    \E t \in Tasks : /\ PlayEnqueued(t) /\ task[t].res = "added"
                     /\ Len(task[t].q0) = 3
                     /\ track[G(t)] # NoItem /\ track[G(t)] = task[t].track0

\* ---- C25 (Spec)
\* the answers of the validation failures of play, skip and leave
Rejections == {"Not in a voice channel", "Not in voice channel",
               "User not in a voice channel", "User not in the channel"}

\* the handler of the task ends, or is bound to end, in a validation failure
Rejected(r) ==
    \/ r.res \in Rejections
    \/ r.op \in {"skip", "leave"} /\ r.user = "other" /\ r.res = "none"

\* C25: no step of a handler that fails validation (a play by a user in no
\* voice channel; a skip or leave with no voice connection, by a user in no
\* voice channel or by a user in another channel) changes a queue, a playing
\* flag, the connection or what it plays.
C25_RejectionsChangeNothing ==
    [][\A t \in Tasks :
          (task'[t] # task[t] /\ (Rejected(task[t]) \/ Rejected(task'[t])))
              => UNCHANGED <<storeVars, voiceVars>>]_vars

\* a skip by a user in another channel was refused while a track plays and
\* items wait
C25_Witness ==
    \E t \in Tasks : /\ Op(t) = "skip" /\ Pc(t) = "ret"
                     /\ task[t].res = "User not in the channel"
                     /\ track[G(t)] # NoItem /\ Queue(G(t)) # <<>>
                     /\ is_playing(guilds_playing, G(t))

\* ---- C26 (Spec)
\* playlist.consume calls the advance of the task has made
Consumes(t) ==
    task[t].attempts +
        (IF Pc(t) = "adv_media" \/ Pc(t) = "remove" \/ task[t].finished = 1
         THEN 1 ELSE 0)

\* what is left of the advance: two steps for every queued item, and the
\* step the task is at
AdvanceMeasure(t) ==
    2 * Len(Queue(G(t))) +
        (CASE Pc(t) = "adv_consume" -> 1 [] Pc(t) = "adv_media" -> 2 [] OTHER -> 0)

AdvanceBounded(t) ==
    /\ task[t].attempts <= Len(task[t].q0)
    /\ Consumes(t) <= Len(task[t].q0) + 1
    /\ InAdvance(t) =>
          Len(Queue(G(t))) + Consumes(t) = Len(task[t].q0)

\* C26: an advance entered with L items queued makes at most L + 1 consume
\* calls and at most L materialization attempts, every consume that finds an
\* item removes exactly one, no step of any handler lengthens the queue
\* while the advance runs, and every step of the advance lowers a measure
\* that is bounded below, so the recursion ends.
C26_AdvanceTerminates ==
    /\ [](\A t \in Tasks : (Op(t) # "leave" /\ (InAdvance(t) \/ Pc(t) \in {"remove", "ret"}))
                              => AdvanceBounded(t))
    /\ [][\A t \in Tasks : InAdvance(t) =>
              /\ Len(Queue(G(t))') <= Len(Queue(G(t)))
              /\ task'[t] # task[t] => AdvanceMeasure(t)' < AdvanceMeasure(t)]_vars

\* an advance over three items failed on each and consumed a fourth time
C26_Witness ==
    \E t \in Tasks : /\ Pc(t) = "remove" /\ Op(t) # "leave"
                     /\ Len(task[t].q0) = MaxQueue
                     /\ task[t].attempts = MaxQueue
                     /\ Consumes(t) = MaxQueue + 1

\* ---- C27 (Spec)
\* the task is in an advance or has left one
Advancing(t) == Op(t) # "leave" /\ (InAdvance(t) \/ Pc(t) \in {"remove", "ret"})

\* the items the advance of the task has removed from the queue so far
Removed(t) == task[t].attempts + (IF Pc(t) = "adv_media" THEN 1 ELSE 0)

MaxPages == 3
MaxPageItems == 1

\* what the API answers to the request for one page: the request fails (no
\* response, no text, or a body that is no playlistItems response), or it
\* carries the page's items
PageSet == [items : SeqsUpTo(MaxPageItems), ok : BOOLEAN]

\* a playlist on the server: page k carries a nextPageToken, for page k + 1,
\* exactly when it is not the last
Playlists == UNION {[1..n -> PageSet] : n \in 1..MaxPages}

\* mutant of playlist_get_items: the token of the page is not followed
playlist_get_items_one_page(pages, k) ==
    IF ~pages[k].ok
    THEN [items |-> <<>>, reqs |-> <<k>>]
    ELSE [items |-> pages[k].items, reqs |-> <<k>>]

\* YoutubeAPI::playlist_get_items(playlist, page_token): the request for page
\* k, and the recursion on its token; reqs logs the requests in order
RECURSIVE playlist_get_items(_, _)
playlist_get_items(pages, k) ==
    IF ~pages[k].ok
    THEN [items |-> <<>>, reqs |-> <<k>>]
    ELSE IF k < Len(pages)
    THEN LET rest == playlist_get_items(pages, k + 1)
         IN [items |-> pages[k].items \o rest.items, reqs |-> <<k>> \o rest.reqs]
    ELSE [items |-> pages[k].items, reqs |-> <<k>>]

\* YoutubeAPI::playlist: the request for the first page; ok tells
\* YoutubeResult::Ok from the error variants
playlist(pages) ==
    IF ~pages[1].ok
    THEN [ok |-> FALSE, items |-> <<>>, reqs |-> <<1>>]
    ELSE IF 1 < Len(pages)
    THEN LET rest == playlist_get_items(pages, 2)
         IN [ok |-> TRUE, items |-> pages[1].items \o rest.items,
             reqs |-> <<1>> \o rest.reqs]
    ELSE [ok |-> TRUE, items |-> pages[1].items, reqs |-> <<1>>]

\* youtube_result_to_playlist_items: every variant but Ok gives no items
youtube_result_to_playlist_items(y) == IF y.ok THEN y.items ELSE <<>>

\* SystemPlaylist::add of a YouTube playlist URL whose playlist is `pages`
AddPlaylist(g, pages) ==
    /\ last.op = "none"
    /\ LET y == playlist(pages)
           r == add(guilds_playlists, g, "Url",
                    [ok |-> TRUE, items |-> youtube_result_to_playlist_items(y)])
       IN /\ guilds_playlists' = r.lists
          /\ last' = [NoLast EXCEPT !.op = "add_playlist", !.guild = g, !.ok = r.ok,
                                    !.count = r.count, !.slice = r.slice,
                                    !.before = Queue(g), !.kind = "Url",
                                    !.resolved = y.items,
                                    !.store0 = <<pages, y.reqs>>]
    /\ UNCHANGED <<guilds_playing, lockVars, voiceVars, fs, task, added, consumed, nops>>

\* one lookup from the empty store
PagesNext ==
    /\ last.op = "none"
    /\ \E pages \in Playlists : AddPlaylist("g1", pages)

PagesSpec == Init /\ [][PagesNext]_vars

\* ---- C28 (PagesSpec)
LookedUp == last.op = "add_playlist"
Pages == last.store0[1]
Requests == last.store0[2]

RECURSIVE AllItems(_, _)
AllItems(pages, k) ==
    IF k > Len(pages) THEN <<>> ELSE pages[k].items \o AllItems(pages, k + 1)

\* C28: the lookup requests the pages one after the other in page order, each
\* once, following the token of a page to the next; when every request
\* succeeds it has requested every page up to the one without a token and
\* returns the items of all pages, concatenated in page order.
C28_FollowsEveryPage ==
    LookedUp =>
        /\ Len(Requests) >= 1 /\ Len(Requests) <= Len(Pages)
        /\ \A k \in 1..Len(Requests) : Requests[k] = k
        /\ \A k \in 1..(Len(Requests) - 1) : Pages[k].ok
        /\ (\A k \in 1..Len(Pages) : Pages[k].ok) =>
              /\ Len(Requests) = Len(Pages)
              /\ last.resolved = AllItems(Pages, 1)

\* three pages of one item each, all fetched, the second unlike the others
C28_Witness ==
    /\ LookedUp /\ Len(Pages) = MaxPages
    /\ \A k \in 1..Len(Pages) : Pages[k].ok /\ Len(Pages[k].items) = 1
    /\ Pages[1].items # Pages[2].items
    /\ Len(last.resolved) = MaxPages /\ last.ok

\* ---- C29 (PagesSpec)
\* C29: when the request for any page fails, the first or a later one, the
\* add fails and appends nothing, so no partial list is enqueued, and no
\* request is made twice.
C29_FailedPageFailsAdd ==
    (LookedUp /\ \E k \in 1..Len(Requests) : ~Pages[k].ok) =>
        /\ ~last.ok
        /\ Queue(last.guild) = last.before
        /\ \A j, k \in 1..Len(Requests) : Requests[j] = Requests[k] => j = k

\* ---- the classification of a URL input (UrlSpec)
MaxSegments == 2

UrlHosts == {"www.youtube.com", "youtu.be", "example.com"}

\* url_str.ends_with("youtube.com") || url_str.ends_with("youtu.be")
is_youtube_host(h) == h \in {"www.youtube.com", "youtu.be"}

\* the first value of a query key, "none" when the key is absent
NoValue == "none"

\* a URL with a host has at least one path segment, possibly empty
PathSegments == UNION {[1..n -> {"shorts", "watch", "S1"}] : n \in 1..MaxSegments}

Urls == [host : UrlHosts, list : {NoValue, "PL1"}, v : {NoValue, "V1"},
         path : PathSegments]

\* youtube_url_extractor; indexing path_segments[1] of a one-segment path panics
youtube_url_extractor(url) ==
    IF ~is_youtube_host(url.host) THEN [type |-> "None", id |-> NoValue]
    ELSE IF url.list # NoValue THEN [type |-> "Playlist", id |-> url.list]
    ELSE IF url.v # NoValue THEN [type |-> "Video", id |-> url.v]
    ELSE IF url.path[1] = "shorts"
    THEN IF Len(url.path) >= 2
         THEN [type |-> "Short", id |-> url.path[2]]
         ELSE [type |-> "panic", id |-> NoValue]
    ELSE [type |-> "None", id |-> NoValue]

\* the match on the extractor's result in SystemPlaylist::add
UrlLookup(y) ==
    CASE y.type = "Playlist" -> "api.playlist"
      [] y.type \in {"Video", "Short"} -> "api.video"
      [] y.type = "None" -> "get_playlist"
      [] OTHER -> "panic"

Classify(url) ==
    /\ last' = [NoLast EXCEPT !.op = "classify", !.kind = "Url",
                              !.item = UrlLookup(youtube_url_extractor(url)),
                              !.store0 = <<url, youtube_url_extractor(url)>>]
    /\ UNCHANGED <<storeVars, lockVars, voiceVars, fs, task, added, consumed, nops>>

UrlNext == \E url \in Urls : Classify(url)

UrlSpec == Init /\ [][UrlNext]_vars

\* ---- C30 (UrlSpec)
Classified == last.op = "classify"
TheUrl == last.store0[1]
UrlType == last.store0[2]

\* C30: for a YouTube URL, a `list` parameter makes it a Playlist of that id
\* even with a `v` parameter; otherwise a `v` parameter makes it a Video of
\* that id; otherwise a first path segment `shorts` makes it a Short of the
\* second path segment; otherwise it goes to the generic downloader.  Video
\* and Short go to the single-video lookup, Playlist to the paginated one.
C30_ClassifiesByPriority ==
    (Classified /\ is_youtube_host(TheUrl.host)) =>
        /\ TheUrl.list # NoValue =>
              /\ UrlType = [type |-> "Playlist", id |-> TheUrl.list]
              /\ last.item = "api.playlist"
        /\ (TheUrl.list = NoValue /\ TheUrl.v # NoValue) =>
              /\ UrlType = [type |-> "Video", id |-> TheUrl.v]
              /\ last.item = "api.video"
        /\ (TheUrl.list = NoValue /\ TheUrl.v = NoValue /\ TheUrl.path[1] = "shorts") =>
              /\ UrlType.type = "Short"
              /\ Len(TheUrl.path) >= 2 /\ UrlType.id = TheUrl.path[2]
              /\ last.item = "api.video"
        /\ (TheUrl.list = NoValue /\ TheUrl.v = NoValue /\ TheUrl.path[1] # "shorts") =>
              /\ UrlType.type = "None"
              /\ last.item = "get_playlist"

\* ---- the routing of the input of a play request (RouteSpec)
\* the host of a parsed URL; NoValue: the URL has no host
RouteHosts == UrlHosts \cup {"open.spotify.com", NoValue}

\* what the user typed: a string Url::parse rejects, or a URL
SearchText == [text : {"q1", "q2"}]
Songs == SearchText \cup
         [host : RouteHosts, list : {NoValue, "PL1"}, v : {NoValue, "V1"},
          path : PathSegments]

\* Url::parse(&self.song) is Ok
parses(song) == "host" \in DOMAIN song

\* url_parsed.host_str().unwrap_or("").ends_with("open.spotify.com")
is_spotify_host(h) == h = "open.spotify.com"

\* mutant of input_type: the host is not looked at
input_type_any_url(song) == IF parses(song) THEN "Url" ELSE "Search"

\* PlayCommand::run: the PotPlayInputType made of the song
input_type(song) ==
    IF ~parses(song) THEN "Search"
    ELSE IF is_spotify_host(song.host) THEN "SpotifyUrl"
    ELSE "Url"

\* Self::get_playlist(url, backend): every decoded item gets the backend
get_playlist(raw, backend) ==
    [k \in 1..Len(raw) |-> [id |-> raw[k], backend |-> backend]]

\* the match on the input in SystemPlaylist::add: the resolver called, the
\* argument it is given and the downloader backend
resolver(kind, song) ==
    CASE kind = "Search" ->
            [via |-> "get_playlist", arg |-> <<"ytsearch1:", song.text>>,
             backend |-> "YT_DLP"]
      [] kind = "SpotifyUrl" ->
            [via |-> "get_playlist", arg |-> <<song>>, backend |-> "YOUTUBE_DL"]
      [] OTHER ->
            LET h == youtube_url_extractor(song)
            IN IF UrlLookup(h) = "get_playlist"
               THEN [via |-> "get_playlist", arg |-> <<song>>, backend |-> "YT_DLP"]
               ELSE [via |-> UrlLookup(h), arg |-> <<h.id>>, backend |-> NoValue]

Route(song, raw) ==
    LET kind == input_type(song)
        r == resolver(kind, song)
    IN /\ last' = [NoLast EXCEPT !.op = "route", !.kind = kind, !.item = r.via,
                                 !.resolved = IF r.via = "get_playlist"
                                              THEN get_playlist(raw, r.backend)
                                              ELSE <<>>,
                                 !.store0 = <<song, r, raw>>]
       /\ UNCHANGED <<storeVars, lockVars, voiceVars, fs, task, added, consumed, nops>>

\* one play request
RouteNext ==
    /\ last.op = "none"
    /\ \E song \in Songs, raw \in SeqsUpTo(MaxResolved) : Route(song, raw)

RouteSpec == Init /\ [][RouteNext]_vars

\* ---- C31 (RouteSpec)
Routed == last.op = "route"
TheSong == last.store0[1]
TheResolver == last.store0[2]

\* C31: a URL on an open.spotify.com host goes to the generic downloader
\* with the youtube-dl backend whatever its path and query; a URL on neither
\* platform, or with no host, goes to the generic downloader with the yt-dlp
\* backend; a string that is no URL goes to the generic downloader as
\* `ytsearch1:` followed by the string, with the yt-dlp backend; each of
\* these inputs has exactly that one route, and every item the generic
\* downloader returns carries the backend it was called with.
C31_RoutesByInput ==
    Routed =>
        /\ (parses(TheSong) /\ is_spotify_host(TheSong.host)) =>
              /\ last.kind = "SpotifyUrl"
              /\ TheResolver = [via |-> "get_playlist", arg |-> <<TheSong>>,
                                backend |-> "YOUTUBE_DL"]
        /\ (parses(TheSong) /\ ~is_spotify_host(TheSong.host)
                            /\ ~is_youtube_host(TheSong.host)) =>
              /\ last.kind = "Url"
              /\ TheResolver = [via |-> "get_playlist", arg |-> <<TheSong>>,
                                backend |-> "YT_DLP"]
        /\ ~parses(TheSong) =>
              /\ last.kind = "Search"
              /\ TheResolver = [via |-> "get_playlist",
                                arg |-> <<"ytsearch1:", TheSong.text>>,
                                backend |-> "YT_DLP"]
        /\ last.item = "get_playlist" =>
              /\ Len(last.resolved) = Len(last.store0[3])
              /\ \A k \in 1..Len(last.resolved) :
                    last.resolved[k] = [id |-> last.store0[3][k],
                                        backend |-> TheResolver.backend]

\* a Spotify playlist URL that carries a `list` and a `v` parameter went to
\* youtube-dl and came back with two items
C31_Witness ==
    /\ Routed /\ parses(TheSong) /\ is_spotify_host(TheSong.host)
    /\ TheSong.list # NoValue /\ TheSong.v # NoValue
    /\ Len(last.resolved) = 2
    /\ \A k \in 1..2 : last.resolved[k].backend = "YOUTUBE_DL"

\* ---- get_media called on any state of the cache directory (MediaSpec)
\* at the path of an item there is nothing, a file or a directory
MediaItems == {"A", "B", "C"}

MediaInit ==
    /\ StoreEmpty
    /\ fs \in [MediaItems -> {"none", "file", "dir"}]

GetMedia(item) ==
    \E m \in GetMediaOutcomes(fs, item) :
        /\ fs' = m.fs
        /\ last' = [NoLast EXCEPT !.op = "get_media", !.item = item, !.ok = m.ok,
                                  !.count = m.fetches, !.store0 = <<fs>>]
        /\ UNCHANGED <<storeVars, lockVars, voiceVars, task, added, consumed, nops>>

MediaNext == \E item \in MediaItems : GetMedia(item)

MediaSpec == MediaInit /\ [][MediaNext]_vars

\* ---- C32 (MediaSpec)
MediaAsked == last.op = "get_media"
CacheBefore == last.store0[1]

\* C32: get_media on an item whose artifact is a file returns it without a
\* fetch and leaves the cache as it was; otherwise it fetches exactly once
\* and succeeds exactly when a file is at the path afterwards; a directory
\* at the path is never taken for the artifact, before or after the fetch.
C32_CacheThenFetchOnce ==
    MediaAsked =>
        /\ CacheBefore[last.item] = "file" =>
              (last.ok /\ last.count = 0 /\ fs = CacheBefore)
        /\ CacheBefore[last.item] # "file" =>
              (last.count = 1 /\ (last.ok <=> fs[last.item] = "file"))
        /\ fs[last.item] = "dir" => ~last.ok
        /\ \A i \in MediaItems \ {last.item} : fs[i] = CacheBefore[i]

\* a fetch put the file in place while the other item's path is a directory
C32_Witness ==
    /\ MediaAsked /\ last.ok /\ last.count = 1
    /\ CacheBefore[last.item] = "none" /\ fs[last.item] = "file"
    /\ \E i \in MediaItems : fs[i] = "dir"

\* ---- C33 (Spec)
\* the leave of the task clears the queue and the flag in this step
LeaveClears(t) ==
    Op(t) = "leave" /\ Pc(t) = "leave_clear" /\ task'[t].pc = "remove"

\* C33: the step in which a leave clears the queue and sets is_playing false
\* is taken only when no task is inside an advance, so an advance that has
\* consumed an item has returned before; and right after that step the
\* guild's queue is empty and is_playing is false.  While an advance runs,
\* the store changes only by the steps of that advance.
C33_LeaveWaitsForAdvance ==
    [][/\ \A t \in Tasks : LeaveClears(t) =>
              /\ \A u \in Tasks : ~InAdvance(u)
              /\ Queue(G(t))' = <<>>
              /\ ~is_playing(guilds_playing', G(t))
       /\ \A u \in Tasks : (InAdvance(u) /\ task'[u] = task[u]) =>
              UNCHANGED storeVars]_vars

\* a leave waits for the write lock while an advance materializes the item
\* it consumed, with more items queued
C33_Witness ==
    \E t, u \in Tasks : /\ Op(t) = "leave" /\ Pc(t) = "leave_clear"
                        /\ Pc(u) = "adv_media" /\ G(u) = G(t)
                        /\ Queue(G(t)) # <<>>

\* ---- C34 (Spec)
\* songbird.join failed for the play of the task
JoinFailed(r) == r.op = "play" /\ r.res = "No call obtained"

\* C34: no step of a play whose join fails changes a queue, a playing flag,
\* the manager's call or the track; that play resolves, enqueues and
\* consumes nothing and never holds a lock.
C34_FailedJoinChangesNothing ==
    /\ [](\A t \in Tasks : JoinFailed(task[t]) =>
              /\ ~HoldsLock(t)
              /\ task[t].item = NoItem /\ task[t].attempts = 0
              /\ task[t].q0 = <<>> /\ task[t].notices = <<>>)
    /\ [][\A t \in Tasks :
              (task'[t] # task[t] /\ (JoinFailed(task[t]) \/ JoinFailed(task'[t])))
                  => UNCHANGED <<storeVars, lockVars, voiceVars>>]_vars

\* a join failed for a guild that has items queued and is_playing true
C34_Witness ==
    \E t \in Tasks : /\ JoinFailed(task[t]) /\ Pc(t) = "ret"
                     /\ Queue(G(t)) # <<>>
                     /\ is_playing(guilds_playing, G(t))

\* ---- two guilds on the one SystemPlaylist (TenantsSpec)
TenantQueue == 1

\* the guild whose requests and track ends the task handles
Home(t) == IF t = "t1" THEN "g1" ELSE "g2"

\* the handlers of both guilds, one request or event per guild at a time,
\* from users in the bot's channel
TenantsNext ==
    \/ \E t \in Tasks : PlayJoin(t, Home(t))
    \/ \E t \in Tasks : PlayLockPlaylist(t)
    \/ \E t \in Tasks : PlayLockCall(t)
    \/ \E t \in Tasks, kind \in InputKinds, res \in Resolutions :
          PlayAdd(t, kind, res, TenantQueue)
    \/ \E t \in Tasks : ConsumeAndPlayConsume(t)
    \/ \E t \in Tasks : ConsumeAndPlayMedia(t)
    \/ \E t \in Tasks : Remove(t)
    \/ \E t \in Tasks : SkipStart(t, Home(t), "same")
    \/ \E t \in Tasks : SkipLockCall(t)
    \/ \E t \in Tasks : SkipLockPlaylist(t)
    \/ \E t \in Tasks : song_skip(t)
    \/ \E t \in Tasks : LeaveStart(t, Home(t), "same")
    \/ \E t \in Tasks : LeaveLockCall(t)
    \/ \E t \in Tasks : LeaveClear(t)
    \/ \E t \in Tasks : TrackEnd(t, Home(t))
    \/ \E t \in Tasks : ActLockCall(t)
    \/ \E t \in Tasks : ActLockPlaylist(t)
    \/ \E t \in Tasks : ConsumeAndPlayOnEndConsume(t)
    \/ \E t \in Tasks : ConsumeAndPlayOnEndMedia(t)
    \/ \E t \in Tasks : Return(t)

TenantsSpec == Init /\ [][TenantsNext]_vars

\* ---- C35 (TenantsSpec)
\* the task is inside get_media, which has no timeout
Fetching(u) == Pc(u) = "adv_media"

\* C35: while a task of one guild is inside get_media, no handler of another
\* guild waits for a lock that task holds, so a fetch that never returns
\* holds up the handlers of its own guild only.
C35_StalledFetchStallsOneGuild ==
    \A t, u \in Tasks :
        (Fetching(u) /\ G(t) # G(u) /\ G(t) # NoGuild) => Blocker(t) # u

\* ---- C36 (StoreSpec)
HasQueue(g) == g \in DOMAIN guilds_playlists

\* C36: no guild has a queue at the start; a guild gets its queue in a
\* successful add and in no other call; no call of add, consume, clear or
\* set_status removes the queue of a guild, also when it empties it; and
\* clear returns true exactly for a guild that has a queue.
C36_QueueEntryPersists ==
    /\ \A g \in StoreGuilds : ~HasQueue(g)
    /\ [][\A g \in StoreGuilds :
              /\ HasQueue(g) => HasQueue(g)'
              /\ (~HasQueue(g) /\ HasQueue(g)') =>
                    (last'.op = "add" /\ last'.ok /\ last'.guild = g)]_vars
    /\ [](last.op = "clear" =>
              /\ last.ok <=> last.guild \in DOMAIN last.store0[1]
              /\ last.ok => (HasQueue(last.guild) /\ Queue(last.guild) = <<>>)
              /\ ~last.ok => ~HasQueue(last.guild))

\* clear returned true for a guild whose queue consume had emptied, while the
\* other guild never had a queue
C36_Witness ==
    /\ last.op = "clear" /\ last.ok /\ last.before = <<>>
    /\ consumed[last.guild] = <<>> /\ nops = 3
    /\ \E g \in StoreGuilds : ~HasQueue(g)

\* ---- C37 (TenantsSpec)
\* what a map of the store holds for the guild, if anything
Entry(m, g) == IF g \in DOMAIN m THEN <<m[g]>> ELSE <<>>

\* the guild the step of the task belongs to
StepGuild(t) == IF G(t) # NoGuild THEN G(t) ELSE task'[t].guild

\* C37: a step of a handler of one guild (a play with its add, an advance
\* with its consume and set_status calls, a skip, a leave with its clear, a
\* track end) leaves the queue and the playing flag of every other guild as
\* they were, present or absent.
C37_OtherTenantsUntouched ==
    [][\A t \in Tasks : task'[t] # task[t] =>
          \A h \in Guilds \ {StepGuild(t)} :
              /\ Entry(guilds_playlists, h)' = Entry(guilds_playlists, h)
              /\ Entry(guilds_playing, h)' = Entry(guilds_playing, h)]_vars

\* a leave has cleared its guild while the other guild has an item queued
\* and is playing
C37_Witness ==
    \E t \in Tasks : /\ Op(t) = "leave" /\ Pc(t) = "remove"
                     /\ \E h \in Guilds \ {G(t)} :
                           /\ Queue(h) # <<>>
                           /\ is_playing(guilds_playing, h)
                           /\ track[h] # NoItem

\* ---- C38 (Spec)
\* a handler has called play_only_input on a Call the manager no longer held
PlayedOnReleased(t) == task[t].deadplay

\* C38: whenever a handler calls play_only_input, the handle it calls it on
\* is the call the manager holds for the guild at that moment: no play
\* request interleaved with a leave or with a track-end handler that
\* exhausts the queue starts playback on a connection that was removed.
C38_PlaysOnRegisteredCall == \A t \in Tasks : ~PlayedOnReleased(t)

\* ---- C39 (Spec)
\* no handler of the guild is between its start and its return
Quiescent(g) == \A t \in Tasks : G(t) # g

\* C39: when no handler of a guild is in progress and the manager holds no
\* call for the guild, is_playing is false, so that the next play request
\* advances instead of only appending to the queue.
C39_DisconnectedIsStopped ==
    \A g \in Guilds :
        (Quiescent(g) /\ ~Registered(g)) => ~is_playing(guilds_playing, g)

\* ---- C40 (UrlSpec)
\* the variants of YoutubeUrlType
YoutubeUrlTypes == {"Playlist", "Video", "Short", "None"}

\* C40: youtube_url_extractor returns a YoutubeUrlType for every URL with a
\* host, whatever its path segments and query parameters; it never panics,
\* not even for a YouTube URL whose only path segment is `shorts`.
C40_ClassificationIsTotal == Classified => UrlType.type \in YoutubeUrlTypes

=============================================================================
